---- MODULE Spec2Model ----
(***************************************************************************)
(* A model of rip_validator: the column-name rule evaluator                *)
(* (column_name_validator.py, filter_check.py, config.py, status.py) and   *)
(* the data / metadata consistency checker                                 *)
(* (data_and_metadata_validator.py, helper_validator_methods.py).          *)
(*                                                                         *)
(* A Python str is a sequence of one-character strings, so that indexing,  *)
(* substring search, replace, split and lower are computed, not assumed.   *)
(* Python's None is the empty tuple and an optional value x that is        *)
(* present is the one-element tuple <<x>>.                                 *)
(***************************************************************************)
EXTENDS Integers, Sequences, FiniteSets, TLC

VARIABLES
    filter_words,     \* config.filter_words: list of FilterName
    exceptions,       \* config.exceptions: list of ExceptionWord
    protected_words,  \* config.protected_words: list of ProtectedWord
    name,             \* the str handed to the column-name operations
    pc,               \* "ready": no call made yet; "done": a call returned or raised
    call,             \* the operation last called
    result,           \* what it returned, or the exception it raised
    table,            \* [name, data, metadata]: the arguments of validate_data_and_metadata
    args,             \* the arguments of DataMetadataValueReport / of check_column_range
    reports,          \* the list validate_data_and_metadata returned / the object constructed
    history,          \* the calls made so far, in order, with what each gave
    maml              \* a MamlMetaData object: fields.columns and the five lists

name_vars == <<filter_words, exceptions, protected_words, name, pc, call, result>>
recon_vars == <<table, args, reports>>
vars == <<filter_words, exceptions, protected_words, name, pc, call, result,
          table, args, reports, history, maml>>

-----------------------------------------------------------------------------
(* Bounds *)

MaxNameLen == 4       \* longest name enumerated over Alphabet
MaxRows == 2          \* largest height of the observed data frame
MaxLongLen == 52      \* longest name given to check_length on its own
MaxCalls == 3         \* most calls of validate_column_name made in a row

-----------------------------------------------------------------------------
(* Python values *)

None == <<>>
Some(x) == <<x>>
IsNone(x) == x = <<>>

\* bool(x) for an object of a class that defines neither __bool__ nor
\* __len__ (Status, MinMax, MamlMetaData): only None is falsy.
Truthy(x) == ~IsNone(x)

Max(a, b) == IF a >= b THEN a ELSE b

-----------------------------------------------------------------------------
(* str *)

LowerLetters == {"a", "b", "c", "d", "e", "f", "g", "h", "i", "j", "k", "l", "m",
                 "n", "o", "p", "q", "r", "s", "t", "u", "v", "w", "x", "y", "z"}
\* the uppercase letters that occur in the names and type strings enumerated
UpperLetters == {"B", "O", "F", "I"}
Digits == {"0", "1", "2", "3", "4", "5", "6", "7", "8", "9"}

\* str.lower() on one character
LowerChar(c) ==
    CASE c = "B" -> "b"
      [] c = "O" -> "o"
      [] c = "F" -> "f"
      [] c = "I" -> "i"
      [] OTHER -> c

\* str.lower()
RECURSIVE Lower(_)
Lower(s) == IF s = <<>> THEN <<>> ELSE <<LowerChar(Head(s))>> \o Lower(Tail(s))

\* c.isalpha(), c.isalnum() on one character
IsAlphaChar(c) == c \in LowerLetters \cup UpperLetters
IsAlnumChar(c) == IsAlphaChar(c) \/ c \in Digits

\* str.isalnum(): non-empty and every character a letter or a digit
IsAlnum(s) == s # <<>> /\ \A i \in 1..Len(s) : IsAlnumChar(s[i])

\* str.islower(): at least one cased character and no uppercase one
IsLower(s) == /\ \E i \in 1..Len(s) : s[i] \in LowerLetters
              /\ \A i \in 1..Len(s) : s[i] \notin UpperLetters

\* sub in s
Contains(s, sub) ==
    \E i \in 0..(Len(s) - Len(sub)) : SubSeq(s, i + 1, i + Len(sub)) = sub

StartsWith(s, p) == Len(s) >= Len(p) /\ SubSeq(s, 1, Len(p)) = p
EndsWith(s, p) == Len(s) >= Len(p) /\ SubSeq(s, Len(s) - Len(p) + 1, Len(s)) = p

\* s.replace(old, ""): the non-overlapping occurrences of old, found left
\* to right, are removed in one pass
RECURSIVE Remove(_, _)
Remove(s, old) ==
    IF old = <<>> \/ Len(s) < Len(old) THEN s
    ELSE IF SubSeq(s, 1, Len(old)) = old
         THEN Remove(SubSeq(s, Len(old) + 1, Len(s)), old)
         ELSE <<Head(s)>> \o Remove(Tail(s), old)

\* s.split("_"): always at least one token, empty tokens kept
RECURSIVE SplitAcc(_, _, _)
SplitAcc(s, cur, acc) ==
    IF s = <<>> THEN Append(acc, cur)
    ELSE IF Head(s) = "_" THEN SplitAcc(Tail(s), <<>>, Append(acc, cur))
         ELSE SplitAcc(Tail(s), Append(cur, Head(s)), acc)
Split(s) == SplitAcc(s, <<>>, <<>>)

\* "_".join(tokens)
RECURSIVE Join(_)
Join(tokens) ==
    IF tokens = <<>> THEN <<>>
    ELSE IF Len(tokens) = 1 THEN tokens[1]
         ELSE tokens[1] \o <<"_">> \o Join(Tail(tokens))

\* tokens[::-1]
RECURSIVE Reverse(_)
Reverse(q) == IF q = <<>> THEN <<>> ELSE Append(Reverse(Tail(q)), Head(q))

-----------------------------------------------------------------------------
(* thefuzz.fuzz.ratio: int(round(100 * 2*LCS(a,b) / (len(a)+len(b)))), the *)
(* normalised Indel similarity; round() is Python's round-half-to-even.    *)

RECURSIVE LcsRow(_, _, _, _)
LcsRow(prev, c, b, cur) ==
    IF Len(cur) = Len(b) + 1 THEN cur
    ELSE LET j == Len(cur)
         IN LcsRow(prev, c, b,
                   Append(cur, IF c = b[j] THEN prev[j] + 1
                               ELSE Max(prev[j + 1], cur[j])))

RECURSIVE LcsRows(_, _, _, _)
LcsRows(a, b, i, prev) ==
    IF i > Len(a) THEN prev[Len(b) + 1]
    ELSE LcsRows(a, b, i + 1, LcsRow(prev, a[i], b, <<0>>))

LCS(a, b) == LcsRows(a, b, 1, [j \in 1..(Len(b) + 1) |-> 0])

RoundHalfEven(num, den) ==
    LET q == num \div den
        r == num % den
    IN IF 2 * r < den THEN q
       ELSE IF 2 * r > den THEN q + 1
       ELSE IF q % 2 = 0 THEN q ELSE q + 1

fuzz_ratio(a, b) ==
    IF Len(a) + Len(b) = 0 THEN 100
    ELSE RoundHalfEven(200 * LCS(a, b), Len(a) + Len(b))

-----------------------------------------------------------------------------
(* status.py *)

PASS == "PASS"
FAIL == "FAIL"
WARNING == "WARNING"
State == {PASS, FAIL, WARNING}

\* Status(state, message=None)
Status(state, message) == [state |-> state, message |-> message]

-----------------------------------------------------------------------------
(* config.py *)

MAX_COLUMN_LENGTH == 50
WARN_COLUMN_LENGTH == 30

ExceptionWord(n, ucd, unit) == [name |-> n, ucd |-> ucd, unit |-> unit]

ProtectedWord(n, reps, ucd, unit) ==
    [name |-> n, common_representations |-> reps, ucd |-> ucd, unit |-> unit]

\* FilterName.__post_init__ derives inverse_name
FilterName(n, secondary_ucd) ==
    [name |-> n, secondary_ucd |-> secondary_ucd,
     inverse_name |-> Join(Reverse(Split(n)))]

-----------------------------------------------------------------------------
(* Scanning a list with an early return: the per-entry outcomes are        *)
(* computed in list order and the first one that returns is the result.    *)

\* a scan that keeps going and returns the last outcome instead of the first
LastSome(outcomes) ==
    LET hits == {i \in 1..Len(outcomes) : ~IsNone(outcomes[i])}
    IN IF hits = {} THEN None
       ELSE outcomes[CHOOSE i \in hits : \A k \in hits : i >= k]

FirstSome(outcomes) ==
    LET hits == {i \in 1..Len(outcomes) : ~IsNone(outcomes[i])}
    IN IF hits = {} THEN None
       ELSE outcomes[CHOOSE i \in hits : \A k \in hits : i <= k]

\* the concatenation of a list of lists, in order
RECURSIVE Flatten(_)
Flatten(qs) == IF qs = <<>> THEN <<>> ELSE Head(qs) \o Flatten(Tail(qs))

\* the value of a scan whose fall-through is `otherwise`
OrElse(outcome, otherwise) == IF IsNone(outcome) THEN otherwise ELSE outcome[1]

-----------------------------------------------------------------------------
(* filter_check.py *)

WARNING_TOLERANCE_RATIO == 70
FAIL_TOLERANCE_RATIO == 80

\* name.lower().replace("_", "")
Simplify(s) == SelectSeq(Lower(s), LAMBDA c : c # "_")

\* first loop: an exact canonical form anywhere in the name
FilterExact(words, n) ==
    FirstSome([i \in 1..Len(words) |->
        IF Contains(n, words[i].name) THEN Some(Status(PASS, None))
        ELSE None])

\* second loop: the canonical form in the wrong case or without separators
FilterWrongCase(words, n) ==
    FirstSome([i \in 1..Len(words) |->
        IF /\ Contains(Simplify(n), Simplify(words[i].name))
           /\ ~Contains(n, words[i].name)
        THEN Some(Status(FAIL, Some(words[i].name)))
        ELSE None])

\* a reversed form that only draws a warning
FilterInverse_Warning(words, n) ==
    FirstSome([i \in 1..Len(words) |->
        IF Contains(Simplify(n), Simplify(words[i].inverse_name))
        THEN Some(Status(WARNING, Some(words[i].name)))
        ELSE None])

\* third loop: the reversed-token form
FilterInverse(words, n) ==
    FirstSome([i \in 1..Len(words) |->
        IF Contains(Simplify(n), Simplify(words[i].inverse_name))
        THEN Some(Status(FAIL, Some(words[i].name)))
        ELSE None])

\* one iteration of the fourth loop; the WARNING test comes first in the code
FilterFuzzyStep(f, simplified_string) ==
    LET ratio == fuzz_ratio(Simplify(f.name), simplified_string)
        ratio_inverse == fuzz_ratio(Simplify(f.inverse_name), simplified_string)
    IN IF ratio > WARNING_TOLERANCE_RATIO \/ ratio_inverse > WARNING_TOLERANCE_RATIO
       THEN Some(Status(WARNING, Some(f.name)))
       ELSE IF ratio > FAIL_TOLERANCE_RATIO \/ ratio_inverse > FAIL_TOLERANCE_RATIO
            THEN Some(Status(FAIL, Some(f.name)))
            ELSE None

FilterFuzzy(words, n) ==
    FirstSome([i \in 1..Len(words) |-> FilterFuzzyStep(words[i], Simplify(n))])

\* a check that looks for reversed forms before exact ones
check_filter_in_InverseFirst(words, n) ==
    IF ~IsNone(FilterInverse(words, n)) THEN FilterInverse(words, n)[1]
    ELSE IF ~IsNone(FilterExact(words, n)) THEN FilterExact(words, n)[1]
    ELSE IF ~IsNone(FilterWrongCase(words, n)) THEN FilterWrongCase(words, n)[1]
    ELSE OrElse(FilterFuzzy(words, n), Status(PASS, None))

\* check_filter over the list `words`; the code reads config.filter_words
check_filter_in(words, n) ==
    IF ~IsNone(FilterExact(words, n)) THEN FilterExact(words, n)[1]
    ELSE IF ~IsNone(FilterWrongCase(words, n)) THEN FilterWrongCase(words, n)[1]
    ELSE IF ~IsNone(FilterInverse(words, n)) THEN FilterInverse(words, n)[1]
    ELSE OrElse(FilterFuzzy(words, n), Status(PASS, None))

check_filter(n) == check_filter_in(filter_words, n)

-----------------------------------------------------------------------------
(* column_name_validator.py *)

NOT_ALLOWED ==
    << <<"f", "r", "e", "d">>,
       <<"b", "o", "b">>,
       <<"t", "h", "i", "n", "g">>,
       <<"s", "o", "m", "e", "t", "h", "i", "n", "g">>,
       <<"w", "h", "a", "t", "e", "v", "e", "r">>,
       <<"w", "o", "r", "d", "s">>,
       <<"b", "l", "a", "h", "b", "l", "a", "h", "b", "l", "a", "h">>,
       <<"a", "b", "c", "1", "2", "3">>,
       <<"x", "y", "z">> >>

ALLOWED_FAIL_RATIO == 80
ALLOWED_WARNING_RATIO == 60

\* a length test that warns from WARN_COLUMN_LENGTH on
check_length_WarnAtLimit(n) ==
    IF Len(n) < WARN_COLUMN_LENGTH THEN Status(PASS, None)
    ELSE IF Len(n) > MAX_COLUMN_LENGTH THEN Status(FAIL, None)
    ELSE Status(WARNING, None)

check_length(n) ==
    IF Len(n) <= WARN_COLUMN_LENGTH THEN Status(PASS, None)
    ELSE IF Len(n) > MAX_COLUMN_LENGTH THEN Status(FAIL, None)
    ELSE Status(WARNING, None)

check_decimals(n) ==
    IF ~Contains(n, <<".">>) THEN Status(PASS, None) ELSE Status(FAIL, None)

\* first loop of check_allowed: a blacklist word as a literal substring
AllowedExact(words, n) ==
    FirstSome([i \in 1..Len(words) |->
        IF Contains(n, words[i]) THEN Some(Status(FAIL, Some(words[i])))
        ELSE None])

\* thresholds that are inclusive lower bounds
AllowedFuzzyStep_Inclusive(n, na, word) ==
    LET ratio == fuzz_ratio(na, Lower(word))
    IN IF ratio >= ALLOWED_FAIL_RATIO
       THEN Some(Status(FAIL, Some(n \o <<" contains banned word: ">> \o na)))
       ELSE IF ratio >= ALLOWED_WARNING_RATIO
            THEN Some(Status(WARNING,
                             Some(n \o <<" contains possible banned word: ">> \o na)))
            ELSE None

\* one iteration of the inner loop of the fuzzy search
AllowedFuzzyStep(n, na, word) ==
    LET ratio == fuzz_ratio(na, Lower(word))
    IN IF ratio > ALLOWED_FAIL_RATIO
       THEN Some(Status(FAIL, Some(n \o <<" contains banned word: ">> \o na)))
       ELSE IF ratio > ALLOWED_WARNING_RATIO
            THEN Some(Status(WARNING,
                             Some(n \o <<" contains possible banned word: ">> \o na)))
            ELSE None

\* second loop: blacklist words outermost, the tokens of the name innermost
AllowedFuzzy(words, n) ==
    FirstSome(Flatten([i \in 1..Len(words) |->
        [k \in 1..Len(Split(n)) |-> AllowedFuzzyStep(n, words[i], Split(n)[k])]]))

\* a check that runs the fuzzy search before the literal one
check_allowed_in_FuzzyFirst(words, n) ==
    IF ~IsNone(AllowedFuzzy(words, n)) THEN AllowedFuzzy(words, n)[1]
    ELSE OrElse(AllowedExact(words, n), Status(PASS, None))

\* check_allowed over the list `words`; the code reads NOT_ALLOWED
check_allowed_in(words, n) ==
    IF ~IsNone(AllowedExact(words, n)) THEN AllowedExact(words, n)[1]
    ELSE OrElse(AllowedFuzzy(words, n), Status(PASS, None))

check_allowed(n) == check_allowed_in(NOT_ALLOWED, n)

\* a token loop that looks for the representation inside each token
ProtectedStep_Substring(n, protected_word, word) ==
    IF word = n THEN Some(Status(FAIL, Some(protected_word.name)))
    ELSE IF \E k \in 1..Len(Split(n)) : Contains(Lower(Split(n)[k]), Lower(word))
         THEN Some(Status(WARNING, Some(protected_word.name)))
         ELSE None

\* one iteration of the loop over common_representations: the comparison
\* with the whole name, then the loop over the tokens of the name
ProtectedStep(n, protected_word, word) ==
    IF word = n THEN Some(Status(FAIL, Some(protected_word.name)))
    ELSE IF \E k \in 1..Len(Split(n)) : Lower(word) = Lower(Split(n)[k])
         THEN Some(Status(WARNING, Some(protected_word.name)))
         ELSE None

check_protected(n) ==
    OrElse(FirstSome(Flatten([i \in 1..Len(protected_words) |->
               [k \in 1..Len(protected_words[i].common_representations) |->
                   ProtectedStep(n, protected_words[i],
                                 protected_words[i].common_representations[k])]])),
           Status(PASS, None))

\* a loop that goes on to the last matching exception
check_exceptions_LastMatch(n) ==
    LET real_string == SelectSeq(n, LAMBDA c : c # "_")
    IN OrElse(LastSome([i \in 1..Len(exceptions) |->
                  IF Contains(Lower(real_string), Lower(exceptions[i].name))
                  THEN IF Contains(real_string, exceptions[i].name)
                       THEN Some(Status(PASS, None))
                       ELSE Some(Status(FAIL, Some(exceptions[i].name)))
                  ELSE None]),
              Status(PASS, None))

check_exceptions(n) ==
    LET real_string == SelectSeq(n, LAMBDA c : c # "_")
    IN OrElse(FirstSome([i \in 1..Len(exceptions) |->
                  IF Contains(Lower(real_string), Lower(exceptions[i].name))
                  THEN IF Contains(real_string, exceptions[i].name)
                       THEN Some(Status(PASS, None))
                       ELSE Some(Status(FAIL, Some(exceptions[i].name)))
                  ELSE None]),
              Status(PASS, None))

check_alphanumeric(n) ==
    LET no_underscores == SelectSeq(n, LAMBDA c : c # "_")
    IN IF IsAlnum(no_underscores) THEN Status(PASS, None) ELSE Status(FAIL, None)

\* name[0] raises IndexError on the empty string
IndexError == "IndexError"
Returned(v) == [raised |-> None, value |-> Some(v)]
Raised(e) == [raised |-> Some(e), value |-> None]

check_alphabetical_start(n) ==
    IF n = <<>> THEN Raised(IndexError)
    ELSE IF IsAlphaChar(n[1]) THEN Returned(Status(PASS, None))
         ELSE Returned(Status(FAIL, None))

\* the two stripping loops of check_snake_case
RECURSIVE RemoveAll(_, _, _)
RemoveAll(s, words, i) ==
    IF i > Len(words) THEN s ELSE RemoveAll(Remove(s, words[i].name), words, i + 1)

Residual(n) == RemoveAll(RemoveAll(n, filter_words, 1), exceptions, 1)

\* `if not check_alphanumeric(actual_string)` tests the truth value of the
\* Status object that check_alphanumeric returns
check_snake_case(n) ==
    IF StartsWith(n, <<"_">>) THEN Status(FAIL, Some(<<"Starts with underscore.">>))
    ELSE IF EndsWith(n, <<"_">>) THEN Status(FAIL, Some(<<"Ends with underscore.">>))
    ELSE IF Contains(n, <<"_", "_">>)
         THEN Status(FAIL, Some(<<"Multiple underscores in a row.">>))
    ELSE LET actual_string == Residual(n)
         IN IF actual_string = <<>> THEN Status(PASS, None)
            ELSE IF IsLower(actual_string)
                 THEN IF ~Truthy(Some(check_alphanumeric(actual_string)))
                      THEN Status(FAIL, None)
                      ELSE Status(PASS, None)
                 ELSE Status(FAIL, None)

RuleNames == {"alpha_numeric", "starts_with_letter", "snake_case", "length",
              "no_decimals", "filter_name", "allowed_words",
              "no_exception_violation", "not_protected"}

\* a report whose valid only requires that no rule is FAIL
ColumnNameReport_WarningValid(column_name, alpha_numeric, starts_with_letter, snake_case, length, no_decimals, filter_name, allowed_words, no_exception_violation, not_protected) ==
    [column_name |-> column_name,
     alpha_numeric |-> alpha_numeric,
     starts_with_letter |-> starts_with_letter,
     snake_case |-> snake_case,
     length |-> length,
     no_decimals |-> no_decimals,
     filter_name |-> filter_name,
     allowed_words |-> allowed_words,
     no_exception_violation |-> no_exception_violation,
     not_protected |-> not_protected,
     valid |-> /\ alpha_numeric.state # FAIL
               /\ starts_with_letter.state # FAIL
               /\ snake_case.state # FAIL
               /\ length.state # FAIL
               /\ no_decimals.state # FAIL
               /\ filter_name.state # FAIL
               /\ allowed_words.state # FAIL
               /\ no_exception_violation.state # FAIL
               /\ not_protected.state # FAIL]

\* ColumnNameReport and its __post_init__
ColumnNameReport(column_name, alpha_numeric, starts_with_letter, snake_case, length, no_decimals, filter_name, allowed_words, no_exception_violation, not_protected) ==
    [column_name |-> column_name,
     alpha_numeric |-> alpha_numeric,
     starts_with_letter |-> starts_with_letter,
     snake_case |-> snake_case,
     length |-> length,
     no_decimals |-> no_decimals,
     filter_name |-> filter_name,
     allowed_words |-> allowed_words,
     no_exception_violation |-> no_exception_violation,
     not_protected |-> not_protected,
     valid |-> /\ alpha_numeric.state = PASS
               /\ starts_with_letter.state = PASS
               /\ snake_case.state = PASS
               /\ length.state = PASS
               /\ no_decimals.state = PASS
               /\ filter_name.state = PASS
               /\ allowed_words.state = PASS
               /\ no_exception_violation.state = PASS
               /\ not_protected.state = PASS]

\* the second check indexes name[0]; its exception leaves the function
validate_column_name(n) ==
    LET letter_start == check_alphabetical_start(n)
    IN IF ~IsNone(letter_start.raised) THEN letter_start
       ELSE Returned(ColumnNameReport(n,
                check_alphanumeric(n), letter_start.value[1], check_snake_case(n),
                check_length(n), check_decimals(n), check_filter(n),
                check_allowed(n), check_exceptions(n), check_protected(n)))

-----------------------------------------------------------------------------
(* The inputs of the column-name operations.  The vocabulary files read by *)
(* config.py are not part of the code, so the lists are small synthetic    *)
(* vocabularies over the alphabet of the names.                            *)

Alphabet == {"o", "b", "B", "1", "_", "."}

\* every str over Alphabet of length at most MaxNameLen
ShortNames == UNION {[1..k -> Alphabet] : k \in 0..MaxNameLen}

\* names that reach the fixed blacklist
ExtraNames == { <<"b", "o", "_", "x", "y", "z">>,
                <<"t", "h", "i", "n", "g">>,
                <<"t", "h", "a", "n", "k">>,
                <<"b", "o", "_", "b", "o", "o", "b">> }

Names == ShortNames \cup ExtraNames

F1 == FilterName(<<"o", "_", "B", "1">>, "em.opt.B")
F2 == FilterName(<<"1", "_", "B">>, "em.opt.R")
E1 == ExceptionWord(<<"o", "B">>, "src.redshift", "")
E2 == ExceptionWord(<<"b", "1">>, "pos.eq", "deg")
P1 == ProtectedWord(<<"b", "1">>, << <<"B">>, <<"B", "_", "1">> >>, "pos.eq.ra", "deg")
P2 == ProtectedWord(<<"o", "b">>, << <<"o", "_", "b">> >>, "pos.eq.dec", "deg")

Vocabularies ==
    { [filter_words |-> <<>>, exceptions |-> <<>>, protected_words |-> <<>>],
      [filter_words |-> <<F1>>, exceptions |-> <<E1>>, protected_words |-> <<P1>>],
      [filter_words |-> <<F1, F2>>, exceptions |-> <<E1, E2>>,
       protected_words |-> <<P1, P2>>],
      [filter_words |-> <<F2, F1>>, exceptions |-> <<E2, E1>>,
       protected_words |-> <<P2, P1>>],
      [filter_words |-> <<F1>>, exceptions |-> <<E2>>, protected_words |-> <<P2>>] }

-----------------------------------------------------------------------------
(* The column-name operations as a state machine: the vocabulary is loaded *)
(* and a name is given; one of the public functions is called on it.       *)

NoTable == None
NoArgs == None
NoReports == None
NoHistory == <<>>
NoMaml == None

InitNames ==
    /\ \E v \in Vocabularies :
          /\ filter_words = v.filter_words
          /\ exceptions = v.exceptions
          /\ protected_words = v.protected_words
    /\ name \in Names
    /\ pc = "ready"
    /\ call = "none"
    /\ result = [raised |-> None, value |-> None]
    /\ table = NoTable
    /\ args = NoArgs
    /\ reports = NoReports
    /\ history = NoHistory
    /\ maml = NoMaml

Finish(op, res) ==
    /\ pc = "ready"
    /\ pc' = "done"
    /\ call' = op
    /\ result' = res
    /\ UNCHANGED <<filter_words, exceptions, protected_words, name, table, args, reports,
                 history, maml>>

CallValidateColumnName == Finish("validate_column_name", validate_column_name(name))
CallCheckAlphanumeric == Finish("check_alphanumeric", Returned(check_alphanumeric(name)))
CallCheckAlphabeticalStart ==
    Finish("check_alphabetical_start", check_alphabetical_start(name))
CallCheckSnakeCase == Finish("check_snake_case", Returned(check_snake_case(name)))
CallCheckLength == Finish("check_length", Returned(check_length(name)))
CallCheckDecimals == Finish("check_decimals", Returned(check_decimals(name)))
CallCheckFilter == Finish("check_filter", Returned(check_filter(name)))
CallCheckAllowed == Finish("check_allowed", Returned(check_allowed(name)))
CallCheckExceptions == Finish("check_exceptions", Returned(check_exceptions(name)))
CallCheckProtected == Finish("check_protected", Returned(check_protected(name)))

NextNames ==
    \/ CallValidateColumnName
    \/ CallCheckAlphanumeric
    \/ CallCheckAlphabeticalStart
    \/ CallCheckSnakeCase
    \/ CallCheckLength
    \/ CallCheckDecimals
    \/ CallCheckFilter
    \/ CallCheckAllowed
    \/ CallCheckExceptions
    \/ CallCheckProtected

Spec == InitNames /\ [][NextNames]_vars

\* the call `op` has returned the value v / the report of validate_column_name
ReturnedFrom(op) == pc = "done" /\ call = op /\ IsNone(result.raised)
Value == result.value[1]

-----------------------------------------------------------------------------
(* check_length on its own, on names of every length up to MaxLongLen.     *)

\* c * k
Repeat(c, k) == [i \in 1..k |-> c]

LongNames == {Repeat(c, k) : c \in {"o", "B", "_"}, k \in 0..MaxLongLen}

InitLength ==
    /\ name \in LongNames
    /\ filter_words = <<>>
    /\ exceptions = <<>>
    /\ protected_words = <<>>
    /\ pc = "ready"
    /\ call = "none"
    /\ result = [raised |-> None, value |-> None]
    /\ table = NoTable
    /\ args = NoArgs
    /\ reports = NoReports
    /\ history = NoHistory
    /\ maml = NoMaml

NextLength == CallCheckLength

SpecLength == InitLength /\ [][NextLength]_vars

-----------------------------------------------------------------------------
(* validate_column_name called several times in a row on the loaded        *)
(* vocabulary: the function reads the three lists and assigns none of them. *)

RepeatNames == { <<"o">>, <<"o", "b", "1">>, <<"o", "B">>, <<"B", "_", "1">>,
                 <<"b", "o">> }

InitRepeat ==
    /\ \E v \in Vocabularies :
          /\ filter_words = v.filter_words
          /\ exceptions = v.exceptions
          /\ protected_words = v.protected_words
    /\ name = <<>>
    /\ pc = "ready"
    /\ call = "none"
    /\ result = [raised |-> None, value |-> None]
    /\ table = NoTable
    /\ args = NoArgs
    /\ reports = NoReports
    /\ history = NoHistory
    /\ maml = NoMaml

\* a call that uses up the first filter of the list it reads
CallValidateColumnNameAgain_Consuming ==
    /\ Len(history) < MaxCalls
    /\ \E n \in RepeatNames :
          /\ name' = n
          /\ result' = validate_column_name(n)
          /\ history' = Append(history, [name |-> n, result |-> validate_column_name(n)])
    /\ pc' = "done"
    /\ call' = "validate_column_name"
    /\ filter_words' = IF filter_words = <<>> THEN <<>> ELSE Tail(filter_words)
    /\ UNCHANGED <<exceptions, protected_words, table, args, reports,
                 maml>>

\* one more call of validate_column_name, after any calls before it
CallValidateColumnNameAgain ==
    /\ Len(history) < MaxCalls
    /\ \E n \in RepeatNames :
          /\ name' = n
          /\ result' = validate_column_name(n)
          /\ history' = Append(history, [name |-> n, result |-> validate_column_name(n)])
    /\ pc' = "done"
    /\ call' = "validate_column_name"
    /\ UNCHANGED <<filter_words, exceptions, protected_words, table, args, reports,
                 maml>>

NextRepeat == CallValidateColumnNameAgain

SpecRepeat == InitRepeat /\ [][NextRepeat]_vars

-----------------------------------------------------------------------------
(* Properties of the column-name operations *)

Min(S) == CHOOSE i \in S : \A k \in S : i <= k

\* the rules of the report that did not pass
NotPassed(report) == {r \in RuleNames : report[r].state # PASS}

\* C1: in every report returned by validate_column_name, valid is true
\* exactly when each of the nine rule statuses is PASS; a WARNING or a FAIL
\* in any of them makes valid false.
C1_ValidIffAllNinePass ==
    ReturnedFrom("validate_column_name") =>
        (Value.valid <=> \A r \in RuleNames : Value[r].state = PASS)

\* a report whose only rule that did not pass is a WARNING, and is not valid
C1_Witness ==
    /\ ReturnedFrom("validate_column_name")
    /\ Cardinality(NotPassed(Value)) = 1
    /\ \E r \in RuleNames : Value[r].state = WARNING
    /\ Value.valid = FALSE

\* the fuzzy stage of check_filter is reached: no loop before it returned
FuzzyStageReached(words, n) ==
    /\ \A i \in 1..Len(words) : ~Contains(n, words[i].name)
    /\ \A i \in 1..Len(words) : ~Contains(Simplify(n), Simplify(words[i].name))
    /\ \A i \in 1..Len(words) : ~Contains(Simplify(n), Simplify(words[i].inverse_name))

\* the larger of the similarity to the forward and to the reversed form
BestRatio(f, n) ==
    Max(fuzz_ratio(Simplify(f.name), Simplify(n)),
        fuzz_ratio(Simplify(f.inverse_name), Simplify(n)))

\* C2: in the fuzzy stage of check_filter the more severe outcome wins: for
\* the first filter whose similarity exceeds 70 the result is FAIL if the
\* similarity exceeds 80 and WARNING only if it does not; PASS if no filter
\* exceeds 70.
C2_FailAboveEightyWarningAboveSeventy ==
    (ReturnedFrom("check_filter") /\ FuzzyStageReached(filter_words, name)) =>
        LET similar == {i \in 1..Len(filter_words) :
                           BestRatio(filter_words[i], name) > 70}
        IN IF similar = {} THEN Value.state = PASS
           ELSE IF BestRatio(filter_words[Min(similar)], name) > 80
                THEN Value.state = FAIL
                ELSE Value.state = WARNING

\* C3: no call raises, whatever the name; validate_column_name("") returns
\* a report whose starts_with_letter is FAIL and whose other eight statuses
\* are PASS or FAIL.
C3_NoCheckRaises ==
    pc = "done" =>
        /\ IsNone(result.raised)
        /\ (call = "validate_column_name" /\ name = <<>>) =>
               /\ Value.starts_with_letter.state = FAIL
               /\ \A r \in RuleNames : Value[r].state \in {PASS, FAIL}

\* the name passes the underscore rules of check_snake_case
UnderscoreRulesPass(n) ==
    /\ ~StartsWith(n, <<"_">>)
    /\ ~EndsWith(n, <<"_">>)
    /\ ~Contains(n, <<"_", "_">>)

\* C4: in check_snake_case, a name that passes the underscore rules and
\* whose residual is non-empty and fully lowercase gets PASS if the residual
\* without its underscores is all letters and digits, and FAIL otherwise.
C4_LowercaseResidualIsRechecked ==
    (/\ ReturnedFrom("check_snake_case")
     /\ UnderscoreRulesPass(name)
     /\ Residual(name) # <<>>
     /\ IsLower(Residual(name))) =>
        Value.state = IF IsAlnum(SelectSeq(Residual(name), LAMBDA c : c # "_"))
                      THEN PASS ELSE FAIL

\* a representation of the entry equals the whole name / one token of it
EqualsWholeName(protected_word, n) ==
    \E k \in 1..Len(protected_word.common_representations) :
        protected_word.common_representations[k] = n
EqualsSomeToken(protected_word, n) ==
    \E k \in 1..Len(protected_word.common_representations) :
        \E t \in 1..Len(Split(n)) :
            Lower(protected_word.common_representations[k]) = Lower(Split(n)[t])

\* C5: check_protected decides on the first protected entry, in list order,
\* that offends: FAIL if any of its representations equals the whole name,
\* WARNING only if none does and one equals a token of the name ignoring
\* case; PASS if no entry offends.
C5_VerbatimUseAlwaysFails ==
    ReturnedFrom("check_protected") =>
        LET offending == {i \in 1..Len(protected_words) :
                             \/ EqualsWholeName(protected_words[i], name)
                             \/ EqualsSomeToken(protected_words[i], name)}
        IN IF offending = {} THEN Value.state = PASS
           ELSE LET entry == protected_words[Min(offending)]
                IN Value.state = IF EqualsWholeName(entry, name)
                                 THEN FAIL ELSE WARNING

\* the outcome of the first entry, in list order, whose own outcome is not
\* PASS; outcomes[i] is the status the scan gives for entry i alone
FirstNonPass(outcomes) ==
    LET nonpass == {i \in 1..Len(outcomes) : outcomes[i].state # PASS}
    IN IF nonpass = {} THEN Status(PASS, None) ELSE outcomes[Min(nonpass)]

FilterAlone(n) ==
    [i \in 1..Len(filter_words) |-> check_filter_in(<<filter_words[i]>>, n)]
AllowedAlone(n) ==
    [i \in 1..Len(NOT_ALLOWED) |-> check_allowed_in(<<NOT_ALLOWED[i]>>, n)]

\* C6 as stated: the status returned by check_filter and by check_allowed is
\* the non-Pass result of the first vocabulary entry, in list order, that
\* produces any non-Pass result; no later entry determines the outcome when
\* an earlier one would produce a non-Pass result.
C6_FirstNonPassEntryDecides ==
    /\ ReturnedFrom("check_filter") => Value = FirstNonPass(FilterAlone(name))
    /\ ReturnedFrom("check_allowed") => Value = FirstNonPass(AllowedAlone(name))

\* the loop of check_filter / check_allowed in which the entry matches
FilterStage(f, n) ==
    IF Contains(n, f.name) THEN 1
    ELSE IF Contains(Simplify(n), Simplify(f.name)) THEN 2
    ELSE IF Contains(Simplify(n), Simplify(f.inverse_name)) THEN 3
    ELSE IF BestRatio(f, n) > WARNING_TOLERANCE_RATIO THEN 4
    ELSE 5

AllowedStage(na, n) ==
    IF Contains(n, na) THEN 1
    ELSE IF \E t \in 1..Len(Split(n)) :
                fuzz_ratio(na, Lower(Split(n)[t])) > ALLOWED_WARNING_RATIO THEN 2
    ELSE 3

\* the first entry, in list order, among those matching in the earliest loop
Decider(stages) ==
    LET earliest == Min({stages[i] : i \in 1..Len(stages)})
    IN Min({i \in 1..Len(stages) : stages[i] = earliest})

FilterDecider(n) ==
    Decider([i \in 1..Len(filter_words) |-> FilterStage(filter_words[i], n)])
AllowedDecider(n) ==
    Decider([i \in 1..Len(NOT_ALLOWED) |-> AllowedStage(NOT_ALLOWED[i], n)])

\* C6 amended: the scans run loop by loop (check_filter: exact, wrong case,
\* reversed, fuzzy; check_allowed: exact substring, fuzzy).  The status and
\* message returned are those of the first entry, in list order, among the
\* entries that match in the earliest loop in which any entry matches; an
\* entry later in the list decides when it matches in an earlier loop than
\* every entry before it.
C6_FirstEntryOfEarliestLoopDecides ==
    /\ ReturnedFrom("check_filter") =>
          IF filter_words = <<>> THEN Value = Status(PASS, None)
          ELSE Value = FilterAlone(name)[FilterDecider(name)]
    /\ ReturnedFrom("check_allowed") =>
          Value = AllowedAlone(name)[AllowedDecider(name)]

\* check_filter returned the FAIL of the second filter although the first
\* filter alone gives a non-Pass result
C6_Witness ==
    /\ ReturnedFrom("check_filter")
    /\ Len(filter_words) = 2
    /\ FilterAlone(name)[1].state # PASS
    /\ FilterDecider(name) = 2
    /\ Value = Status(FAIL, Some(filter_words[2].name))

Offending(n) == {i \in 1..Len(NOT_ALLOWED) : Contains(n, NOT_ALLOWED[i])}

\* C14: for every name that contains a blacklist word as a literal substring,
\* check_allowed returns FAIL with an offending blacklist word as message,
\* whatever the fuzzy comparison and the other checks give; the allowed_words
\* entry of the report of validate_column_name is that same status.
C14_LiteralBlacklistWordFails ==
    /\ (ReturnedFrom("check_allowed") /\ Offending(name) # {}) =>
          /\ Value.state = FAIL
          /\ \E i \in Offending(name) : Value.message = Some(NOT_ALLOWED[i])
    /\ (ReturnedFrom("validate_column_name") /\ Offending(name) # {}) =>
          /\ Value.allowed_words.state = FAIL
          /\ \E i \in Offending(name) :
                Value.allowed_words.message = Some(NOT_ALLOWED[i])

\* "thing" fails with message "thing"
C14_Witness ==
    /\ ReturnedFrom("check_allowed")
    /\ name = <<"t", "h", "i", "n", "g">>
    /\ Value = Status(FAIL, Some(<<"t", "h", "i", "n", "g">>))

\* the (blacklist word, token) pairs of n in the order check_allowed compares
\* them, and the similarity of each
AllowedPairs(n) ==
    {<<i, k>> : i \in 1..Len(NOT_ALLOWED), k \in 1..Len(Split(n))}
PairRatio(n, p) == fuzz_ratio(NOT_ALLOWED[p[1]], Lower(Split(n)[p[2]]))
PairBefore(p, q) == p[1] < q[1] \/ (p[1] = q[1] /\ p[2] <= q[2])
HighestRatio(n) ==
    CHOOSE r \in {PairRatio(n, p) : p \in AllowedPairs(n)} :
        \A p \in AllowedPairs(n) : PairRatio(n, p) <= r

\* C15: in the fuzzy stage of check_allowed (no blacklist word is a literal
\* substring) the thresholds are exclusive lower bounds on the similarity of a
\* blacklist word and a lowercased '_'-token: the result is PASS when the
\* highest similarity is 60 or less, and otherwise the first pair compared
\* whose similarity exceeds 60 gives WARNING for 61..80, 80 included, and
\* FAIL for 81 or more.
C15_ThresholdsAreExclusive ==
    (ReturnedFrom("check_allowed") /\ Offending(name) = {}) =>
        LET above == {p \in AllowedPairs(name) : PairRatio(name, p) > 60}
            first == CHOOSE p \in above : \A q \in above : PairBefore(p, q)
        IN /\ HighestRatio(name) = 60 => Value.state = PASS
           /\ above = {} => Value.state = PASS
           /\ above # {} =>
                 /\ (61 <= PairRatio(name, first) /\ PairRatio(name, first) <= 80)
                        => Value.state = WARNING
                 /\ PairRatio(name, first) = 80 => Value.state = WARNING
                 /\ PairRatio(name, first) >= 81 => Value.state = FAIL

\* the highest similarity of the name is exactly 60 and the name passes
C15_Witness ==
    /\ ReturnedFrom("check_allowed")
    /\ Offending(name) = {}
    /\ HighestRatio(name) = 60
    /\ Value.state = PASS

\* similarities of exactly 80 and of more than 80 are both among the inputs
C15_WitnessEighty ==
    /\ ReturnedFrom("check_allowed")
    /\ Offending(name) = {}
    /\ HighestRatio(name) = 80
    /\ Value.state = WARNING
C15_WitnessAboveEighty ==
    /\ ReturnedFrom("check_allowed")
    /\ Offending(name) = {}
    /\ Len(Split(name)) = 1
    /\ HighestRatio(name) > 80
    /\ Value.state = FAIL

\* the filters whose canonical form is a literal substring of n, those whose
\* canonical form is in n once case and underscores are dropped, and those
\* whose reversed-token form is
ExactFilters(n) ==
    {i \in 1..Len(filter_words) : Contains(n, filter_words[i].name)}
WrongCaseFilters(n) ==
    {i \in 1..Len(filter_words) :
        Contains(Remove(Lower(n), <<"_">>), Remove(Lower(filter_words[i].name), <<"_">>))}
ReversedFilters(n) ==
    {i \in 1..Len(filter_words) :
        Contains(Remove(Lower(n), <<"_">>),
                 Remove(Lower(Join(Reverse(Split(filter_words[i].name)))), <<"_">>))}

\* C16: check_filter returns FAIL with the canonical name of a matching filter
\* as message whenever no canonical form is a literal substring of the name
\* and (a) some canonical form, lowercased and without underscores, is a
\* substring of the lowercased name without underscores, or (b) some
\* reversed-token form, normalised alike, is.
C16_WrongCaseOrReversedFails ==
    (/\ ReturnedFrom("check_filter")
     /\ ExactFilters(name) = {}
     /\ WrongCaseFilters(name) \cup ReversedFilters(name) # {}) =>
        /\ Value.state = FAIL
        /\ \E i \in WrongCaseFilters(name) \cup ReversedFilters(name) :
              Value.message = Some(filter_words[i].name)

\* a name that holds only the reversed form of a filter fails with the
\* canonical name of that filter
C16_Witness ==
    /\ ReturnedFrom("check_filter")
    /\ ExactFilters(name) = {}
    /\ WrongCaseFilters(name) = {}
    /\ \E i \in ReversedFilters(name) :
          Value = Status(FAIL, Some(filter_words[i].name))

\* C17: check_filter returns PASS for every name that contains at least one
\* canonical form as an exact literal substring, whether or not the name
\* also holds a wrong-cased, reversed or similar form of that or any other
\* filter.
C17_ExactFormPasses ==
    (ReturnedFrom("check_filter") /\ ExactFilters(name) # {}) =>
        Value = Status(PASS, None)

\* the name holds the exact form of a filter and also a reversed form
C17_Witness ==
    /\ ReturnedFrom("check_filter")
    /\ ExactFilters(name) # {}
    /\ ReversedFilters(name) # {}
    /\ Value.state = PASS

\* the exceptions whose lowercased name is in the lowercased name without
\* underscores
MatchingExceptions(n) ==
    {i \in 1..Len(exceptions) :
        Contains(Lower(Remove(n, <<"_">>)), Lower(exceptions[i].name))}

\* C18: check_exceptions decides on the first exception in list order whose
\* lowercased name is a substring of the lowercased name without
\* underscores: PASS if its exact-cased name is a substring of the name
\* without underscores, otherwise FAIL with that exception's name as message;
\* later exceptions are not consulted, and with no match the result is PASS.
C18_FirstMatchingExceptionDecides ==
    ReturnedFrom("check_exceptions") =>
        IF MatchingExceptions(name) = {} THEN Value = Status(PASS, None)
        ELSE LET first == Min(MatchingExceptions(name))
             IN IF Contains(Remove(name, <<"_">>), exceptions[first].name)
                THEN Value = Status(PASS, None)
                ELSE Value = Status(FAIL, Some(exceptions[first].name))

\* the first matching exception is in its required case and a later matching
\* one is not: the result is PASS
C18_Witness ==
    /\ ReturnedFrom("check_exceptions")
    /\ \E i, k \in MatchingExceptions(name) :
          /\ i < k
          /\ i = Min(MatchingExceptions(name))
          /\ Contains(Remove(name, <<"_">>), exceptions[i].name)
          /\ ~Contains(Remove(name, <<"_">>), exceptions[k].name)
    /\ Value = Status(PASS, None)

\* a name in the wrong case fails with the required casing as message
C18_WitnessWrongCase ==
    /\ ReturnedFrom("check_exceptions")
    /\ name = <<"o", "b">>
    /\ Value = Status(FAIL, Some(<<"o", "B">>))

LowercaseSnakeCase(n) ==
    /\ n # <<>>
    /\ \A i \in 1..Len(n) : n[i] \in LowerLetters \cup Digits \cup {"_"}
    /\ n[1] # "_"
    /\ n[Len(n)] # "_"
    /\ \A i \in 1..(Len(n) - 1) : ~(n[i] = "_" /\ n[i + 1] = "_")

\* no token of the name is equal to a protected representation
NoProtectedToken(n) ==
    \A i \in 1..Len(protected_words) :
        \A k \in 1..Len(protected_words[i].common_representations) :
            \A t \in 1..Len(Split(n)) :
                Split(n)[t] # protected_words[i].common_representations[k]

\* no exception and no filter is in the name in another case than its own
NoWrongCase(n) ==
    /\ \A i \in MatchingExceptions(n) :
          Contains(Remove(n, <<"_">>), exceptions[i].name)
    /\ \A i \in WrongCaseFilters(n) : Contains(n, filter_words[i].name)

\* C20 as stated: every name that is lowercase snake_case, starts with a
\* letter, has at most 30 characters, contains no blacklist word as a
\* substring, has no token equal to a protected representation and holds no
\* exception or filter term in the wrong case is valid.
C20_CleanSnakeCaseNameIsValid ==
    (/\ pc = "done"
     /\ call = "validate_column_name"
     /\ LowercaseSnakeCase(name)
     /\ name[1] \in LowerLetters
     /\ Len(name) <= 30
     /\ Offending(name) = {}
     /\ NoProtectedToken(name)
     /\ NoWrongCase(name)) =>
        /\ IsNone(result.raised)
        /\ Value.valid = TRUE

\* no '_'-token of the name is similar to a blacklist word
NoSimilarBlacklistWord(n) == \A p \in AllowedPairs(n) : PairRatio(n, p) <= 60

\* the name is no protected representation and none of its tokens is one,
\* whatever the case
NoProtectedUse(n) ==
    \A i \in 1..Len(protected_words) :
        \A k \in 1..Len(protected_words[i].common_representations) :
            LET rep == protected_words[i].common_representations[k]
            IN /\ rep # n
               /\ \A t \in 1..Len(Split(n)) : Lower(Split(n)[t]) # Lower(rep)

\* an exact filter form is in the name, or no filter form is in it in another
\* case or reversed and the name is similar to none
NoFilterMisuse(n) ==
    \/ ExactFilters(n) # {}
    \/ /\ WrongCaseFilters(n) = {}
       /\ ReversedFilters(n) = {}
       /\ \A i \in 1..Len(filter_words) : BestRatio(filter_words[i], n) <= 70

\* what is left of the name without the filter and the exception forms is
\* nothing, or has a letter in it
ResidueHasALetter(n) ==
    \/ Residual(n) = <<>>
    \/ \E i \in 1..Len(Residual(n)) : Residual(n)[i] \in LowerLetters

\* C20, amended: every name that is lowercase snake_case, starts with a
\* letter, has at most 30 characters, contains no blacklist word and has no
\* token similar (ratio above 60) to one, is no protected representation and
\* has no token equal to one in any case, holds every exception it holds in
\* that exception's own case, holds an exact filter form or else no
\* wrong-cased, reversed or similar (ratio above 70) filter form, and leaves
\* nothing or a residue with a letter once the filter and exception forms are
\* removed, is valid.
C20_CleanDissimilarNameIsValid ==
    (/\ pc = "done"
     /\ call = "validate_column_name"
     /\ LowercaseSnakeCase(name)
     /\ name[1] \in LowerLetters
     /\ Len(name) <= 30
     /\ Offending(name) = {}
     /\ NoSimilarBlacklistWord(name)
     /\ NoProtectedUse(name)
     /\ \A i \in MatchingExceptions(name) :
           Contains(Remove(name, <<"_">>), exceptions[i].name)
     /\ NoFilterMisuse(name)
     /\ ResidueHasALetter(name)) =>
        /\ IsNone(result.raised)
        /\ Value.valid = TRUE

\* a valid name of two tokens that holds an exception in its own case, under
\* a vocabulary with a filter and a protected word
C20_Witness ==
    /\ ReturnedFrom("validate_column_name")
    /\ LowercaseSnakeCase(name)
    /\ Len(Split(name)) = 2
    /\ filter_words # <<>>
    /\ protected_words # <<>>
    /\ MatchingExceptions(name) # {}
    /\ NoSimilarBlacklistWord(name)
    /\ NoProtectedUse(name)
    /\ NoFilterMisuse(name)
    /\ ResidueHasALetter(name)
    /\ Value.valid = TRUE

-----------------------------------------------------------------------------
(* data_types.py, helper_validator_methods.py *)

\* ClosedInterval
LEFT == "left"
RIGHT == "right"
BOTH == "both"
NONE == "none"

\* polars is_between(min, max, closed=...) on one value
is_between_left(v, min, max, closed) == min <= v /\ v < max

is_between(v, min, max, closed) ==
    CASE closed = BOTH -> min <= v /\ v <= max
      [] closed = LEFT -> min <= v /\ v < max
      [] closed = RIGHT -> min < v /\ v <= max
      [] closed = NONE -> min < v /\ v < max

\* a range test that takes every interval as closed at both ends
check_column_range_Closed(data_frame, column_name, min, max, include) ==
    \A i \in 1..Len(data_frame.series[column_name].values) :
        is_between(data_frame.series[column_name].values[i], min, max, BOTH)

\* data_frame.select(pl.col(column_name).is_between(...).all()).item()
check_column_range(data_frame, column_name, min, max, include) ==
    \A i \in 1..Len(data_frame.series[column_name].values) :
        is_between(data_frame.series[column_name].values[i], min, max, include)

\* a comparison that tells upper case from lower case
check_data_type_CaseSensitive(polars_dtype, waves_type) == polars_dtype = waves_type

\* str(polars_dtype).lower() == waves_type.lower()
check_data_type(polars_dtype, waves_type) == Lower(polars_dtype) = Lower(waves_type)

-----------------------------------------------------------------------------
(* metadata_validator.py: the records the checker reads *)

MinMax(min, max) == [min |-> min, max |-> max]

ColumnMetaData(n, ucd, data_type, qc, unit, info) ==
    [name |-> n, ucd |-> ucd, data_type |-> data_type, qc |-> qc,
     unit |-> unit, info |-> info]

-----------------------------------------------------------------------------
(* data_and_metadata_validator.py *)

\* the f-string form of a number
Str(x) == <<ToString(x)>>

compare_column_type(column_name, data, metadata_columns) ==
    IF check_data_type(data.series[column_name].dtype,
                       metadata_columns[column_name].data_type)
    THEN Status(PASS, None)
    ELSE Status(FAIL, Some(
             <<"Invalid datatype. MAML indicates the expected type is ">>
             \o metadata_columns[column_name].data_type
             \o <<" but the Parquet shows type actually is ">>
             \o data.series[column_name].dtype))

compare_column_range(column_name, data, metadata_columns) ==
    LET qc == metadata_columns[column_name].qc[1]
        is_valid == check_column_range(data, column_name, qc.min, qc.max, BOTH)
    IN IF is_valid THEN Status(PASS, None)
       ELSE Status(FAIL, Some(
                <<"Invalid range. Data must be between the supplied minimum ">>
                \o Str(qc.min) \o <<" and the supplied maximum ">> \o Str(qc.max)))

\* DataMetadataValueReport and its __post_init__: all([...]) over
\* `status and status.state == State.PASS`, which is None for an absent status
DataMetadataValueReport(column_name, column_in_both_files, valid_column_datatypes, valid_column_ranges) ==
    [column_name |-> column_name,
     column_in_both_files |-> column_in_both_files,
     valid_column_datatypes |-> valid_column_datatypes,
     valid_column_ranges |-> valid_column_ranges,
     valid |-> /\ column_in_both_files.state = PASS
               /\ (Truthy(valid_column_datatypes) /\
                       valid_column_datatypes[1].state = PASS)
               /\ (Truthy(valid_column_ranges) /\
                       valid_column_ranges[1].state = PASS)]

\* x in data.columns
InList(x, list) == \E i \in 1..Len(list) : list[i] = x

\* set(list)
ToSet(list) == {list[i] : i \in 1..Len(list)}

\* only the columns of the data frame
all_columns_DataOnly(data, metadata_columns) == ToSet(data.columns)

\* set(data.columns) | set(metadata_columns.columns)
all_columns(data, metadata_columns) ==
    ToSet(data.columns) \cup DOMAIN metadata_columns.columns

\* a loop body that evaluates the range of a column missing from one file
ColumnReport_RangeAlways(column_name, table_name, data, metadata_columns) ==
    IF InList(column_name, data.columns)
       /\ column_name \in DOMAIN metadata_columns.columns
    THEN DataMetadataValueReport(column_name, Status(PASS, None),
             Some(compare_column_type(column_name, data, metadata_columns.columns)),
             IF Truthy(metadata_columns.columns[column_name].qc)
             THEN Some(compare_column_range(column_name, data, metadata_columns.columns))
             ELSE Some(Status(PASS, None)))
    ELSE DataMetadataValueReport(column_name, Status(FAIL, None), None,
                                 Some(Status(PASS, None)))

\* the body of the loop of validate_data_and_metadata for one column name;
\* every name of all_columns is in one of the three branches
ColumnReport(column_name, table_name, data, metadata_columns) ==
    IF InList(column_name, data.columns)
       /\ column_name \in DOMAIN metadata_columns.columns
    THEN DataMetadataValueReport(column_name, Status(PASS, None),
             Some(compare_column_type(column_name, data, metadata_columns.columns)),
             IF Truthy(metadata_columns.columns[column_name].qc)
             THEN Some(compare_column_range(column_name, data, metadata_columns.columns))
             ELSE Some(Status(PASS, None)))
    ELSE IF InList(column_name, data.columns)
    THEN DataMetadataValueReport(column_name,
             Status(FAIL, Some(column_name \o <<" found in ">> \o table_name
                               \o <<".parquet but not in ">> \o table_name
                               \o <<".maml">>)),
             None, None)
    ELSE DataMetadataValueReport(column_name,
             Status(FAIL, Some(column_name \o <<" found in ">> \o table_name
                               \o <<".maml but not in ">> \o table_name
                               \o <<".parquet">>)),
             None, None)

\* the orders in which a Python set of str may be iterated
IterationOrders(S) ==
    {order \in [1..Cardinality(S) -> S] :
        \A i, k \in 1..Cardinality(S) : order[i] = order[k] => i = k}

\* validate_data_and_metadata, given the order in which the loop runs
validate_data_and_metadata(table_name, data, metadata, order) ==
    [i \in 1..Len(order) |->
        ColumnReport(order[i], table_name, data, metadata.fields)]

-----------------------------------------------------------------------------
(* The consistency check as a state machine: a data frame and a metadata   *)
(* object are given and validate_data_and_metadata is called on them.      *)

ColumnPool == << <<"f", "l", "u", "x">>, <<"m", "a", "g">> >>
Values == 0..3
ObservedTypes == { <<"F", "l", "o", "a", "t", "6", "4">> }
DeclaredTypes == { <<"f", "l", "o", "a", "t", "6", "4">>, <<"i", "n", "t", "3", "2">> }
DeclaredRanges == {None, Some(MinMax(1, 2))}
TableName == <<"t">>

\* the names of `pool`, in pool order, that are in `keep`
SubList(pool, keep) == SelectSeq(pool, LAMBDA c : c \in keep)

InitRecon ==
    /\ \E n \in 0..MaxRows, dcols \in SUBSET ToSet(ColumnPool),
          mcols \in SUBSET ToSet(ColumnPool) :
          \E series \in [dcols -> [dtype : ObservedTypes, values : [1..n -> Values]]],
             declared \in [mcols -> [data_type : DeclaredTypes, qc : DeclaredRanges]] :
             table = [name |-> TableName,
                      data |-> [columns |-> SubList(ColumnPool, dcols),
                                series |-> series],
                      metadata |-> [fields |-> [columns |->
                          [c \in mcols |-> ColumnMetaData(c, None,
                              declared[c].data_type, declared[c].qc, None, None)]]]]
    /\ filter_words = <<>>
    /\ exceptions = <<>>
    /\ protected_words = <<>>
    /\ name = <<>>
    /\ pc = "ready"
    /\ call = "none"
    /\ result = [raised |-> None, value |-> None]
    /\ args = NoArgs
    /\ reports = NoReports
    /\ history = NoHistory
    /\ maml = NoMaml

CallValidateDataAndMetadata ==
    /\ pc = "ready"
    /\ \E order \in IterationOrders(all_columns(table.data, table.metadata.fields)) :
          reports' = validate_data_and_metadata(table.name, table.data,
                                                table.metadata, order)
    /\ pc' = "done"
    /\ call' = "validate_data_and_metadata"
    /\ UNCHANGED <<filter_words, exceptions, protected_words, name, result, table, args,
                 history, maml>>

NextRecon == CallValidateDataAndMetadata

SpecRecon == InitRecon /\ [][NextRecon]_vars

-----------------------------------------------------------------------------
(* The report constructor on its own: any three statuses may be passed.    *)

Messages == {None, Some(<<"m">>)}
Statuses == {Status(st, m) : st \in State, m \in Messages}
OptionalStatuses == {None} \cup {Some(st) : st \in Statuses}

InitReport ==
    /\ \E in_both \in Statuses, datatypes \in OptionalStatuses,
          ranges \in OptionalStatuses :
          args = [column_name |-> ColumnPool[1],
                  column_in_both_files |-> in_both,
                  valid_column_datatypes |-> datatypes,
                  valid_column_ranges |-> ranges]
    /\ filter_words = <<>>
    /\ exceptions = <<>>
    /\ protected_words = <<>>
    /\ name = <<>>
    /\ pc = "ready"
    /\ call = "none"
    /\ result = [raised |-> None, value |-> None]
    /\ table = NoTable
    /\ reports = NoReports
    /\ history = NoHistory
    /\ maml = NoMaml

ConstructReport ==
    /\ pc = "ready"
    /\ reports' = <<DataMetadataValueReport(args.column_name,
                        args.column_in_both_files, args.valid_column_datatypes,
                        args.valid_column_ranges)>>
    /\ pc' = "done"
    /\ call' = "DataMetadataValueReport"
    /\ UNCHANGED <<filter_words, exceptions, protected_words, name, result, table, args,
                 history, maml>>

NextReport == ConstructReport

SpecReport == InitReport /\ [][NextReport]_vars

-----------------------------------------------------------------------------
(* check_column_range on its own: a one-column data frame, two endpoints   *)
(* and any of the four closures.                                           *)

Closures == {LEFT, RIGHT, BOTH, NONE}

InitRange ==
    /\ \E n \in 0..MaxRows :
          \E values \in [1..n -> Values] :
             table = [name |-> TableName,
                      data |-> [columns |-> <<ColumnPool[1]>>,
                                series |-> [c \in {ColumnPool[1]} |->
                                    [dtype |-> <<"I", "n", "t", "6", "4">>,
                                     values |-> values]]]]
    /\ \E min \in Values, max \in Values, include \in Closures :
          args = [column_name |-> ColumnPool[1], min |-> min, max |-> max,
                  include |-> include]
    /\ filter_words = <<>>
    /\ exceptions = <<>>
    /\ protected_words = <<>>
    /\ name = <<>>
    /\ pc = "ready"
    /\ call = "none"
    /\ result = [raised |-> None, value |-> None]
    /\ reports = NoReports
    /\ history = NoHistory
    /\ maml = NoMaml

CallCheckColumnRange ==
    Finish("check_column_range",
           Returned(check_column_range(table.data, args.column_name,
                                       args.min, args.max, args.include)))

NextRange == CallCheckColumnRange

SpecRange == InitRange /\ [][NextRange]_vars

-----------------------------------------------------------------------------
(* Properties of the consistency check *)

ReconDone == pc = "done" /\ call = "validate_data_and_metadata"
DataColumns == ToSet(table.data.columns)
MetadataColumns == DOMAIN table.metadata.fields.columns

OnlyInData(c) == c \in DataColumns \ MetadataColumns
OnlyInMetadata(c) == c \in MetadataColumns \ DataColumns
InBoth(c) == c \in DataColumns \cap MetadataColumns

\* C7: validate_data_and_metadata returns one report per name of
\* columns(data) \cup columns(metadata), no name repeated or left out, and
\* a name that is in one schema only has column_in_both_files FAIL with a
\* message that says which file has it and which lacks it.
C7_OneReportPerColumnOfTheUnion ==
    ReconDone =>
        /\ Len(reports) = Cardinality(DataColumns \cup MetadataColumns)
        /\ {reports[i].column_name : i \in 1..Len(reports)} =
               DataColumns \cup MetadataColumns
        /\ \A i, k \in 1..Len(reports) :
               reports[i].column_name = reports[k].column_name => i = k
        /\ \A i \in 1..Len(reports) :
               LET c == reports[i].column_name
                   presence == reports[i].column_in_both_files
               IN /\ OnlyInData(c) =>
                         /\ presence.state = FAIL
                         /\ presence.message =
                                Some(c \o <<" found in ">> \o table.name
                                     \o <<".parquet but not in ">> \o table.name
                                     \o <<".maml">>)
                  /\ OnlyInMetadata(c) =>
                         /\ presence.state = FAIL
                         /\ presence.message =
                                Some(c \o <<" found in ">> \o table.name
                                     \o <<".maml but not in ">> \o table.name
                                     \o <<".parquet">>)

\* one column is only in the data and another only in the metadata
C7_Witness ==
    /\ ReconDone
    /\ \E c \in DataColumns : OnlyInData(c)
    /\ \E c \in MetadataColumns : OnlyInMetadata(c)
    /\ Len(reports) = 2

\* C8: for every DataMetadataValueReport, valid is true exactly when
\* column_in_both_files is PASS, valid_column_datatypes is None or PASS and
\* valid_column_ranges is None or PASS; an absent status counts as a pass.
C8_AbsentStatusCountsAsPass ==
    (pc = "done" /\ call = "DataMetadataValueReport") =>
        LET report == reports[1]
        IN report.valid <=>
              /\ report.column_in_both_files.state = PASS
              /\ (IsNone(report.valid_column_datatypes)
                    \/ report.valid_column_datatypes[1].state = PASS)
              /\ (IsNone(report.valid_column_ranges)
                    \/ report.valid_column_ranges[1].state = PASS)

\* C9: in every report returned by validate_data_and_metadata, a name in
\* both schemas has column_in_both_files PASS and both valid_column_datatypes
\* and valid_column_ranges present; a name in one schema only has both None.
C9_TypeAndRangeOnlyForSharedColumns ==
    ReconDone =>
        \A i \in 1..Len(reports) :
            LET c == reports[i].column_name
            IN /\ InBoth(c) =>
                      /\ reports[i].column_in_both_files.state = PASS
                      /\ ~IsNone(reports[i].valid_column_datatypes)
                      /\ ~IsNone(reports[i].valid_column_ranges)
               /\ (OnlyInData(c) \/ OnlyInMetadata(c)) =>
                      /\ IsNone(reports[i].valid_column_datatypes)
                      /\ IsNone(reports[i].valid_column_ranges)

\* one column is in both schemas and another in one of them only
C9_Witness ==
    /\ ReconDone
    /\ \E i \in 1..Len(reports) : InBoth(reports[i].column_name)
    /\ \E i \in 1..Len(reports) :
           /\ ~InBoth(reports[i].column_name)
           /\ IsNone(reports[i].valid_column_ranges)

\* C10: for a column in both schemas, valid_column_ranges is PASS when the
\* declared column has no (min, max); when it has one, it is PASS exactly
\* when every observed value v has min <= v <= max, and otherwise FAIL with
\* a message that names min and max.
C10_RangeIsClosedAtBothEnds ==
    ReconDone =>
        \A i \in 1..Len(reports) :
            LET c == reports[i].column_name
            IN InBoth(c) =>
                  LET qc == table.metadata.fields.columns[c].qc
                      values == table.data.series[c].values
                      range == reports[i].valid_column_ranges[1]
                  IN IF IsNone(qc) THEN range.state = PASS
                     ELSE IF \A k \in 1..Len(values) :
                                 qc[1].min <= values[k] /\ values[k] <= qc[1].max
                          THEN range.state = PASS
                          ELSE /\ range.state = FAIL
                               /\ Contains(range.message[1], Str(qc[1].min))
                               /\ Contains(range.message[1], Str(qc[1].max))

\* a bounded column that holds its own minimum and its own maximum passes
C10_Witness ==
    /\ ReconDone
    /\ \E i \in 1..Len(reports) :
          LET c == reports[i].column_name
          IN /\ InBoth(c)
             /\ ~IsNone(table.metadata.fields.columns[c].qc)
             /\ \E k \in 1..Len(table.data.series[c].values) :
                    table.data.series[c].values[k] =
                        table.metadata.fields.columns[c].qc[1].max
             /\ \E k \in 1..Len(table.data.series[c].values) :
                    table.data.series[c].values[k] =
                        table.metadata.fields.columns[c].qc[1].min
             /\ reports[i].valid_column_ranges[1].state = PASS

\* C11: for a column in both schemas, valid_column_datatypes is PASS exactly
\* when the declared type string and the string form of the observed type are
\* equal once both are lowercased, and otherwise FAIL with a message that
\* contains the declared type and the observed type.
C11_TypesAreComparedInLowerCase ==
    ReconDone =>
        \A i \in 1..Len(reports) :
            LET c == reports[i].column_name
            IN InBoth(c) =>
                  LET declared == table.metadata.fields.columns[c].data_type
                      observed == table.data.series[c].dtype
                      datatypes == reports[i].valid_column_datatypes[1]
                  IN IF Lower(declared) = Lower(observed)
                     THEN datatypes.state = PASS
                     ELSE /\ datatypes.state = FAIL
                          /\ Contains(datatypes.message[1], declared)
                          /\ Contains(datatypes.message[1], observed)

\* a declared type that differs from the observed one in case only passes
C11_Witness ==
    /\ ReconDone
    /\ \E i \in 1..Len(reports) :
          LET c == reports[i].column_name
          IN /\ InBoth(c)
             /\ table.metadata.fields.columns[c].data_type #
                    table.data.series[c].dtype
             /\ Lower(table.metadata.fields.columns[c].data_type) =
                    Lower(table.data.series[c].dtype)
             /\ reports[i].valid_column_datatypes[1].state = PASS

\* C12: check_column_range(df, col, a, b, closure) is true exactly when every
\* value v of the column is in the interval of the closure: a <= v <= b for
\* BOTH, a <= v < b for LEFT, a < v <= b for RIGHT, a < v < b for NONE; so a
\* value equal to a is contained under LEFT and a value equal to b is not.
C12_ClosureSelectsTheEndpoints ==
    ReturnedFrom("check_column_range") =>
        LET values == table.data.series[args.column_name].values
            a == args.min
            b == args.max
            AllValues(P(_)) == \A k \in 1..Len(values) : P(values[k])
            InBOTH(v) == a <= v /\ v <= b
            InLEFT(v) == a <= v /\ v < b
            InRIGHT(v) == a < v /\ v <= b
            InNONE(v) == a < v /\ v < b
        IN /\ args.include = BOTH => (Value <=> AllValues(InBOTH))
           /\ args.include = LEFT => (Value <=> AllValues(InLEFT))
           /\ args.include = RIGHT => (Value <=> AllValues(InRIGHT))
           /\ args.include = NONE => (Value <=> AllValues(InNONE))
           /\ (args.include = LEFT /\ \E k \in 1..Len(values) : values[k] = b)
                  => Value = FALSE

\* under LEFT a column that holds the lower endpoint a is within [a, b)
C12_Witness ==
    /\ ReturnedFrom("check_column_range")
    /\ args.include = LEFT
    /\ \E k \in 1..Len(table.data.series[args.column_name].values) :
           table.data.series[args.column_name].values[k] = args.min
    /\ Value = TRUE

-----------------------------------------------------------------------------
(* metadata_validator.py: Columns and its keyed accessors. Each accessor   *)
(* gives the map it leaves behind and what it returned or raised.          *)

ValueError(message) == [type |-> "ValueError", message |-> message]
KeyError(key) == [type |-> "KeyError", message |-> key]

\* f"No column with the name '{column_name}' found."
NoColumnMessage(column_name) ==
    <<"No column with the name '">> \o column_name \o <<"' found.">>

\* f"Cannot set the min max of a 'string' type column: '{column_name}'"
StringColumnMessage(column_name) ==
    <<"Cannot set the min max of a 'string' type column: '">> \o column_name \o <<"'">>

StringType == <<"s", "t", "r", "i", "n", "g">>

Outcome(columns, res) == [columns |-> columns, result |-> res]

set_info(columns, column_name, info) ==
    IF column_name \in DOMAIN columns
    THEN Outcome([columns EXCEPT ![column_name].info = Some(info)], Returned(None))
    ELSE Outcome(columns, Raised(ValueError(NoColumnMessage(column_name))))

get_info(columns, column_name) ==
    IF column_name \in DOMAIN columns
    THEN Outcome(columns, Returned(columns[column_name].info))
    ELSE Outcome(columns, Raised(ValueError(NoColumnMessage(column_name))))

\* a setter that writes the unit into the ucd field
set_unit_IntoUcd(columns, column_name, unit) ==
    IF column_name \in DOMAIN columns
    THEN Outcome([columns EXCEPT ![column_name].ucd = Some(unit)], Returned(None))
    ELSE Outcome(columns, Raised(ValueError(NoColumnMessage(column_name))))

set_unit(columns, column_name, unit) ==
    IF column_name \in DOMAIN columns
    THEN Outcome([columns EXCEPT ![column_name].unit = Some(unit)], Returned(None))
    ELSE Outcome(columns, Raised(ValueError(NoColumnMessage(column_name))))

get_unit(columns, column_name) ==
    IF column_name \in DOMAIN columns
    THEN Outcome(columns, Returned(columns[column_name].unit))
    ELSE Outcome(columns, Raised(ValueError(NoColumnMessage(column_name))))

set_ucd(columns, column_name, ucd) ==
    IF column_name \in DOMAIN columns
    THEN Outcome([columns EXCEPT ![column_name].ucd = Some(ucd)], Returned(None))
    ELSE Outcome(columns, Raised(ValueError(NoColumnMessage(column_name))))

get_ucd(columns, column_name) ==
    IF column_name \in DOMAIN columns
    THEN Outcome(columns, Returned(columns[column_name].ucd))
    ELSE Outcome(columns, Raised(ValueError(NoColumnMessage(column_name))))

\* a setter without the test for 'string' columns
set_minmax_AnyType(columns, column_name, min, max) ==
    IF column_name \notin DOMAIN columns
    THEN Outcome(columns, Raised(KeyError(column_name)))
    ELSE Outcome([columns EXCEPT ![column_name].qc = Some(MinMax(min, max))],
                 Returned(None))

\* the data_type test reads self.columns[column_name] before the try block
set_minmax(columns, column_name, min, max) ==
    IF column_name \notin DOMAIN columns
    THEN Outcome(columns, Raised(KeyError(column_name)))
    ELSE IF columns[column_name].data_type = StringType
         THEN Outcome(columns, Raised(ValueError(StringColumnMessage(column_name))))
         ELSE Outcome([columns EXCEPT ![column_name].qc = Some(MinMax(min, max))],
                      Returned(None))

get_minmax(columns, column_name) ==
    IF column_name \in DOMAIN columns
    THEN Outcome(columns, Returned(columns[column_name].qc))
    ELSE Outcome(columns, Raised(ValueError(NoColumnMessage(column_name))))

\* a MamlMetaData object, as far as the fields and the five lists go
MamlMetaData(fields, coauthors, dois, depends, comments, keywords) ==
    [fields |-> fields, coauthors |-> coauthors, dois |-> dois,
     depends |-> depends, comments |-> comments, keywords |-> keywords]

-----------------------------------------------------------------------------
(* The accessors of Columns as a state machine: a map is given and up to   *)
(* MaxCalls accessors are called on it, on names in the map and not in it. *)

InfoValues == { <<"i", "1">>, <<"i", "2">> }
UnitValues == { <<"d", "e", "g">> }
UcdValues == { <<"p", "o", "s">> }
MinMaxValues == { <<0, 1>> }
ColumnTypes == { StringType, <<"f", "l", "o", "a", "t", "6", "4">> }

InitColumns ==
    /\ \E keys \in {{ColumnPool[1]}, {ColumnPool[1], ColumnPool[2]}} :
          \E types \in [keys -> ColumnTypes], qc \in DeclaredRanges :
             maml = MamlMetaData(
                        [columns |-> [c \in keys |->
                            ColumnMetaData(c, None, types[c],
                                IF c = ColumnPool[1] THEN qc ELSE None, None, None)]],
                        None, None, None, None, None)
    /\ filter_words = <<>>
    /\ exceptions = <<>>
    /\ protected_words = <<>>
    /\ name = <<>>
    /\ pc = "ready"
    /\ call = "none"
    /\ result = [raised |-> None, value |-> None]
    /\ table = NoTable
    /\ args = NoArgs
    /\ reports = NoReports
    /\ history = NoHistory

\* one call of an accessor: the map it leaves is the map of the object
Accessor(op, column_name, value, outcome) ==
    /\ Len(history) < MaxCalls
    /\ maml' = [maml EXCEPT !.fields.columns = outcome.columns]
    /\ name' = column_name
    /\ args' = value
    /\ call' = op
    /\ result' = outcome.result
    /\ pc' = "done"
    /\ history' = Append(history, [call |-> op, column_name |-> column_name,
                                   value |-> value, result |-> outcome.result,
                                   before |-> maml.fields.columns])
    /\ UNCHANGED <<filter_words, exceptions, protected_words, table, reports>>

CallSetInfo ==
    \E c \in ToSet(ColumnPool), v \in InfoValues :
        Accessor("set_info", c, Some(v), set_info(maml.fields.columns, c, v))
CallGetInfo ==
    \E c \in ToSet(ColumnPool) :
        Accessor("get_info", c, None, get_info(maml.fields.columns, c))
CallSetUnit ==
    \E c \in ToSet(ColumnPool), v \in UnitValues :
        Accessor("set_unit", c, Some(v), set_unit(maml.fields.columns, c, v))
CallGetUnit ==
    \E c \in ToSet(ColumnPool) :
        Accessor("get_unit", c, None, get_unit(maml.fields.columns, c))
CallSetUcd ==
    \E c \in ToSet(ColumnPool), v \in UcdValues :
        Accessor("set_ucd", c, Some(v), set_ucd(maml.fields.columns, c, v))
CallGetUcd ==
    \E c \in ToSet(ColumnPool) :
        Accessor("get_ucd", c, None, get_ucd(maml.fields.columns, c))
CallSetMinmax ==
    \E c \in ToSet(ColumnPool), v \in MinMaxValues :
        Accessor("set_minmax", c, Some(MinMax(v[1], v[2])),
                 set_minmax(maml.fields.columns, c, v[1], v[2]))
CallGetMinmax ==
    \E c \in ToSet(ColumnPool) :
        Accessor("get_minmax", c, None, get_minmax(maml.fields.columns, c))

NextColumns ==
    \/ CallSetInfo
    \/ CallGetInfo
    \/ CallSetUnit
    \/ CallGetUnit
    \/ CallSetUcd
    \/ CallGetUcd
    \/ CallSetMinmax
    \/ CallGetMinmax

SpecColumns == InitColumns /\ [][NextColumns]_vars

-----------------------------------------------------------------------------
(* Properties of the accessors of Columns *)

AccessorNames == {"set_info", "get_info", "set_unit", "get_unit",
                  "set_ucd", "get_ucd", "set_minmax", "get_minmax"}

\* the call made last, when it was a call of an accessor
LastCall == history[Len(history)]
AccessorCalled == history # <<>> /\ call \in AccessorNames

\* C21: every keyed accessor of Columns called with a column name that is
\* not in the map fails with ValueError "No column with the name '<name>'
\* found.", never with a KeyError, and leaves the map as it was.
C21_AbsentColumnIsALookupFailure ==
    (AccessorCalled /\ LastCall.column_name \notin DOMAIN LastCall.before) =>
        /\ result.raised = Some(ValueError(NoColumnMessage(LastCall.column_name)))
        /\ maml.fields.columns = LastCall.before

\* the field an accessor writes or reads
FieldOf(op) ==
    CASE op \in {"set_info", "get_info"} -> "info"
      [] op \in {"set_unit", "get_unit"} -> "unit"
      [] op \in {"set_ucd", "get_ucd"} -> "ucd"
      [] op \in {"set_minmax", "get_minmax"} -> "qc"
Setters == {"set_info", "set_unit", "set_ucd", "set_minmax"}
Getters == {"get_info", "get_unit", "get_ucd", "get_minmax"}
FieldNames == {"name", "ucd", "data_type", "qc", "unit", "info"}

\* the successful calls before the last one that set the field the last
\* call is about, in the column it is about
EarlierSets ==
    {i \in 1..(Len(history) - 1) :
        /\ history[i].call \in Setters
        /\ FieldOf(history[i].call) = FieldOf(LastCall.call)
        /\ history[i].column_name = LastCall.column_name
        /\ IsNone(history[i].result.raised)}

-----------------------------------------------------------------------------
(* data_validator.py *)

\* `not column_name` for an optional str: None and "" are both false
NotGiven(column_name) == IsNone(column_name) \/ column_name = Some(<<>>)

\* a search for the root name anywhere in the column name
find_column_Substring(standard_root_name, data_frame) ==
    FirstSome([i \in 1..Len(data_frame.columns) |->
        IF Contains(data_frame.columns[i], standard_root_name)
        THEN Some(data_frame.columns[i])
        ELSE None])

\* _find_column: the first column with a token equal to the root name
find_column(standard_root_name, data_frame) ==
    FirstSome([i \in 1..Len(data_frame.columns) |->
        IF \E k \in 1..Len(Split(data_frame.columns[i])) :
               Split(data_frame.columns[i])[k] = standard_root_name
        THEN Some(data_frame.columns[i])
        ELSE None])

validate_ra(data_frame, ra_column_name) ==
    LET found == IF NotGiven(ra_column_name)
                 THEN find_column(<<"r", "a">>, data_frame)
                 ELSE ra_column_name
    IN IF NotGiven(found) THEN Status(PASS, None)
       ELSE IF check_column_range(data_frame, found[1], 0, 360, LEFT)
            THEN Status(PASS, Some(found[1] \o <<" in range [0, 360)">>))
            ELSE Status(FAIL, Some(found[1] \o <<" not in range [0, 360)">>))

validate_dec(data_frame, dec_column_name) ==
    LET found == IF NotGiven(dec_column_name)
                 THEN find_column(<<"d", "e", "c">>, data_frame)
                 ELSE dec_column_name
    IN IF NotGiven(found) THEN Status(PASS, None)
       ELSE IF check_column_range(data_frame, found[1], -90, 90, BOTH)
            THEN Status(PASS, Some(found[1] \o <<" in range [-90, 90]">>))
            ELSE Status(FAIL, Some(found[1] \o <<" not in range [-90, 90]">>))

-----------------------------------------------------------------------------
(* validate_ra and validate_dec as a state machine: a data frame is given  *)
(* and one of them is called, with a column of the frame named or not.     *)

ColRa == <<"r", "a">>
ColBRa == <<"b", "_", "r", "a">>
ColRad == <<"r", "a", "d">>
ColDec == <<"d", "e", "c">>
ColDec1 == <<"d", "e", "c", "_", "1">>

\* the column lists of the frames, in data-frame order
ColumnLists ==
    { <<>>, <<ColRa>>, <<ColRad>>, <<ColDec>>, <<ColBRa, ColRa>>, <<ColRa, ColBRa>>,
      <<ColRad, ColDec1>>, <<ColDec1, ColDec>>, <<ColDec, ColRa>> }

\* values at and on both sides of the ends of [0, 360) and [-90, 90]
SkyValues == {-91, -90, 0, 90, 360}

InitSky ==
    /\ \E n \in 0..MaxRows, columns \in ColumnLists :
          \E series \in [ToSet(columns) ->
                            [dtype : ObservedTypes, values : [1..n -> SkyValues]]] :
             table = [name |-> TableName,
                      data |-> [columns |-> columns, series |-> series]]
    /\ filter_words = <<>>
    /\ exceptions = <<>>
    /\ protected_words = <<>>
    /\ name = <<>>
    /\ pc = "ready"
    /\ call = "none"
    /\ result = [raised |-> None, value |-> None]
    /\ args = NoArgs
    /\ reports = NoReports
    /\ history = NoHistory
    /\ maml = NoMaml

\* a call with the column name left out or naming a column of the frame
SkyCall(op, given, res) ==
    /\ pc = "ready"
    /\ pc' = "done"
    /\ call' = op
    /\ args' = given
    /\ result' = Returned(res)
    /\ UNCHANGED <<filter_words, exceptions, protected_words, name, table, reports,
                   history, maml>>

CallValidateRa ==
    \E given \in {None} \cup {Some(c) : c \in ToSet(table.data.columns)} :
        SkyCall("validate_ra", given, validate_ra(table.data, given))

CallValidateDec ==
    \E given \in {None} \cup {Some(c) : c \in ToSet(table.data.columns)} :
        SkyCall("validate_dec", given, validate_dec(table.data, given))

NextSky == CallValidateRa \/ CallValidateDec

SpecSky == InitSky /\ [][NextSky]_vars

-----------------------------------------------------------------------------
(* Properties of validate_ra and validate_dec *)

\* the columns of the frame that have a '_'-token equal to root, by position
TokenColumns(root) ==
    {i \in 1..Len(table.data.columns) :
        \E k \in 1..Len(Split(table.data.columns[i])) :
            Split(table.data.columns[i])[k] = root}

\* the column that is checked: the one named, else the first with the token
Checked(root) ==
    IF ~IsNone(args) THEN args
    ELSE IF TokenColumns(root) = {} THEN None
    ELSE Some(table.data.columns[Min(TokenColumns(root))])

ValuesOf(column) == table.data.series[column].values

\* C22: validate_ra returns PASS iff there is no column to check or every
\* value of the checked column is in [0, 360), and validate_dec returns PASS
\* iff there is no column to check or every value is in [-90, 90]; when no
\* column name is given the checked column is the first column, in data-frame
\* order, with a '_'-token equal to "ra" (resp. "dec").
C22_SkyRanges ==
    /\ ReturnedFrom("validate_ra") =>
          LET c == Checked(<<"r", "a">>)
          IN /\ Value.state \in {PASS, FAIL}
             /\ Value.state = PASS <=>
                   (IsNone(c) \/ \A k \in 1..Len(ValuesOf(c[1])) :
                                    0 <= ValuesOf(c[1])[k] /\ ValuesOf(c[1])[k] < 360)
             /\ IsNone(c) => IsNone(Value.message)
             /\ ~IsNone(c) => StartsWith(Value.message[1], c[1])
                               /\ Len(Value.message[1]) = Len(c[1]) + 1
    /\ ReturnedFrom("validate_dec") =>
          LET c == Checked(<<"d", "e", "c">>)
          IN /\ Value.state \in {PASS, FAIL}
             /\ Value.state = PASS <=>
                   (IsNone(c) \/ \A k \in 1..Len(ValuesOf(c[1])) :
                                    -90 <= ValuesOf(c[1])[k] /\ ValuesOf(c[1])[k] <= 90)
             /\ IsNone(c) => IsNone(Value.message)
             /\ ~IsNone(c) => StartsWith(Value.message[1], c[1])
                               /\ Len(Value.message[1]) = Len(c[1]) + 1

\* no name is given, two columns have the token "ra", the first holds 0 and
\* passes although the second holds 360
C22_Witness ==
    /\ ReturnedFrom("validate_ra")
    /\ IsNone(args)
    /\ Cardinality(TokenColumns(<<"r", "a">>)) = 2
    /\ \E k \in 1..Len(ValuesOf(table.data.columns[1])) :
          ValuesOf(table.data.columns[1])[k] = 0
    /\ \E k \in 1..Len(ValuesOf(table.data.columns[2])) :
          ValuesOf(table.data.columns[2])[k] = 360
    /\ Value.state = PASS

\* 360 is rejected by validate_ra; -90 and 90 are accepted by validate_dec
C22_WitnessUpperEnd ==
    /\ ReturnedFrom("validate_ra")
    /\ ~IsNone(Checked(<<"r", "a">>))
    /\ \A k \in 1..Len(ValuesOf(Checked(<<"r", "a">>)[1])) :
          ValuesOf(Checked(<<"r", "a">>)[1])[k] \in {0, 360}
    /\ Value.state = FAIL
C22_WitnessDec ==
    /\ ReturnedFrom("validate_dec")
    /\ IsNone(args)
    /\ ~IsNone(Checked(<<"d", "e", "c">>))
    /\ \E k \in 1..Len(ValuesOf(Checked(<<"d", "e", "c">>)[1])) :
          ValuesOf(Checked(<<"d", "e", "c">>)[1])[k] = -90
    /\ \E k \in 1..Len(ValuesOf(Checked(<<"d", "e", "c">>)[1])) :
          ValuesOf(Checked(<<"d", "e", "c">>)[1])[k] = 90
    /\ Value.state = PASS

-----------------------------------------------------------------------------
(* cli_both.py, validate.py: _validate_maml_and_parquet, one action per    *)
(* statement. `table` holds the two files, `args` the arguments and the    *)
(* local `data`, `maml` the local of that name (None or Some(object)),     *)
(* `reports` the local column_reports, and `history` what was called and   *)
(* printed, in order.                                                      *)

Called(what) == [event |-> "call", what |-> what, column |-> <<>>]
Printed(what) == [event |-> "print", what |-> what, column |-> <<>>]
PrintedReport(what, column) == [event |-> "print", what |-> what, column |-> column]

ConsistencyHeader == "Data and Metadata Column Consistency Validation Report"
Rule == "================================================================================"

\* what validate_df prints for a frame: the table report, a header, one
\* report for each column and a rule
validate_df_prints(df) ==
    <<Printed("table report"), Printed("Column Name Validation Report")>>
    \o [i \in 1..Len(df.columns) |-> PrintedReport("name report", df.columns[i])]
    \o <<Printed(Rule)>>

\* cli_parquet._validate_parquet(file_name, quiet, verbose) prints unless
\* quiet; validate._validate_parquet(file_name, print_output, verbose)
\* prints if print_output. Both are called with print_output in that place.
validate_parquet_prints(module, print_output, df) ==
    IF module = "cli_both"
    THEN IF ~print_output THEN validate_df_prints(df) ELSE <<>>
    ELSE IF print_output THEN validate_df_prints(df) ELSE <<>>

\* the object read_and_validate_maml builds from a file that passed
read_maml_object(file) == MamlMetaData(file.fields, None, None, None, None, None)

\* what read_and_validate_maml prints before it opens the file
read_maml_opening(print_output) ==
    IF print_output THEN <<Printed("MAML Validation Report"), Printed("File Name")>>
    ELSE <<>>

\* what it prints once the schema has accepted or rejected the file
read_maml_verdict(print_output, accepted) ==
    IF ~print_output THEN <<>>
    ELSE IF accepted THEN <<Printed("Overall Status: VALID")>>
    ELSE <<Printed("Overall Status: INVALID")>>

\* a MAML file: unreadable, rejected by the schema, or accepted
MamlFiles == {"unreadable", "invalid", "valid"}
Modules == {"cli_both", "validate"}

InitBoth ==
    /\ \E dcols \in SUBSET ToSet(ColumnPool), mcols \in SUBSET ToSet(ColumnPool),
          file \in MamlFiles :
          \E series \in [dcols -> [dtype : ObservedTypes, values : [1..1 -> Values]]],
             declared \in [mcols -> [data_type : DeclaredTypes, qc : DeclaredRanges]] :
             table = [name |-> TableName,
                      data |-> [columns |-> SubList(ColumnPool, dcols),
                                series |-> series],
                      maml_file |-> file,
                      metadata |-> [fields |-> [columns |->
                          [c \in mcols |-> ColumnMetaData(c, None,
                              declared[c].data_type, declared[c].qc, None, None)]]]]
    /\ \E module \in Modules, print_output \in BOOLEAN :
          args = [module |-> module, print_output |-> print_output, data |-> None]
    /\ filter_words = <<>>
    /\ exceptions = <<>>
    /\ protected_words = <<>>
    /\ name = <<>>
    /\ pc = "start"
    /\ call = "_validate_maml_and_parquet"
    /\ result = [raised |-> None, value |-> None]
    /\ reports = NoReports
    /\ history = NoHistory
    /\ maml = NoMaml

\* _validate_parquet(parquet_file, print_output, verbose)
StepValidateParquet ==
    /\ pc = "start"
    /\ history' = history \o <<Called("_validate_parquet")>>
                     \o validate_parquet_prints(args.module, args.print_output, table.data)
    /\ pc' = "parquet_validated"
    /\ UNCHANGED <<filter_words, exceptions, protected_words, name, call, result, table,
                   args, reports, maml>>

\* data = pl.read_parquet(parquet_file)
StepReadParquet ==
    /\ pc = "parquet_validated"
    /\ history' = Append(history, Called("read_parquet"))
    /\ args' = [args EXCEPT !.data = Some(table.data)]
    /\ pc' = "data_read"
    /\ UNCHANGED <<filter_words, exceptions, protected_words, name, call, result, table,
                   reports, maml>>

\* maml = read_and_validate_maml(maml_file, print_output, verbose)
StepReadAndValidateMaml ==
    /\ pc = "data_read"
    /\ history' = history \o <<Called("read_and_validate_maml")>>
                     \o read_maml_opening(args.print_output)
                     \o (IF table.maml_file = "unreadable" THEN <<>>
                         ELSE read_maml_verdict(args.print_output,
                                                table.maml_file = "valid"))
    /\ IF table.maml_file = "unreadable"
       THEN /\ result' = Raised([type |-> "OSError", message |-> <<>>])
            /\ pc' = "done"
            /\ maml' = maml
       ELSE /\ result' = result
            /\ pc' = "maml_read"
            /\ maml' = IF table.maml_file = "valid"
                       THEN Some(read_maml_object(table.metadata))
                       ELSE None
    /\ UNCHANGED <<filter_words, exceptions, protected_words, name, call, table, args,
                   reports>>

\* a workflow that checks the consistency whatever read_and_validate_maml gave
StepConsistency_Unguarded ==
    /\ pc = "maml_read"
    /\ \E order \in IterationOrders(all_columns(args.data[1], table.metadata.fields)) :
          reports' = validate_data_and_metadata(table.name, args.data[1],
                                                read_maml_object(table.metadata), order)
    /\ history' = history
                     \o (IF args.print_output THEN <<Printed(ConsistencyHeader)>> ELSE <<>>)
                     \o <<Called("validate_data_and_metadata")>>
    /\ pc' = "checked"
    /\ UNCHANGED <<filter_words, exceptions, protected_words, name, call, result, table,
                   args, maml>>

\* if maml: the header, if print_output, and then
\* column_reports = validate_data_and_metadata(file_name, data, maml)
StepConsistency ==
    /\ pc = "maml_read"
    /\ Truthy(maml)
    /\ \E order \in IterationOrders(all_columns(args.data[1], maml[1].fields)) :
          reports' = validate_data_and_metadata(table.name, args.data[1], maml[1], order)
    /\ history' = history
                     \o (IF args.print_output THEN <<Printed(ConsistencyHeader)>> ELSE <<>>)
                     \o <<Called("validate_data_and_metadata")>>
    /\ pc' = "checked"
    /\ UNCHANGED <<filter_words, exceptions, protected_words, name, call, result, table,
                   args, maml>>

\* if print_output: every report and a rule; then the function returns
StepPrintReports ==
    /\ pc = "checked"
    /\ history' = IF args.print_output
                  THEN history
                       \o [i \in 1..Len(reports) |->
                              PrintedReport("consistency report", reports[i].column_name)]
                       \o <<Printed(Rule)>>
                  ELSE history
    /\ result' = Returned(None)
    /\ pc' = "done"
    /\ UNCHANGED <<filter_words, exceptions, protected_words, name, call, table, args,
                   reports, maml>>

\* maml is None: the function returns
StepReturnWithoutCheck ==
    /\ pc = "maml_read"
    /\ ~Truthy(maml)
    /\ result' = Returned(None)
    /\ pc' = "done"
    /\ UNCHANGED <<filter_words, exceptions, protected_words, name, call, table, args,
                   reports, history, maml>>

NextBoth ==
    \/ StepValidateParquet
    \/ StepReadParquet
    \/ StepReadAndValidateMaml
    \/ StepConsistency
    \/ StepPrintReports
    \/ StepReturnWithoutCheck

SpecBoth == InitBoth /\ [][NextBoth]_vars

-----------------------------------------------------------------------------
(* Properties of _validate_maml_and_parquet *)

\* the positions of the log at which `what` was called, or printed
CallsOf(what) == {i \in 1..Len(history) : history[i] = Called(what)}
PrintsOf(what) == {i \in 1..Len(history) : history[i].event = "print"
                                            /\ history[i].what = what}

\* the calls of the log, in order
CallsMade == SelectSeq(history, LAMBDA e : e.event = "call")
WorkflowCalls ==
    <<Called("_validate_parquet"), Called("read_parquet"),
      Called("read_and_validate_maml"), Called("validate_data_and_metadata")>>

\* C24: the Parquet file is validated first, then the MAML file is read and
\* validated, and validate_data_and_metadata runs only after both and only if
\* read_and_validate_maml returned a metadata object; when it returned None
\* the consistency check never runs and no consistency header or report is
\* printed.
C24_ConsistencyLastAndOnlyWithMetadata ==
    /\ Len(CallsMade) <= Len(WorkflowCalls)
    /\ CallsMade = SubSeq(WorkflowCalls, 1, Len(CallsMade))
    /\ CallsOf("validate_data_and_metadata") # {} =>
          /\ Truthy(maml)
          /\ table.maml_file = "valid"
    /\ (CallsOf("read_and_validate_maml") # {} /\ ~Truthy(maml)) =>
          /\ CallsOf("validate_data_and_metadata") = {}
          /\ PrintsOf(ConsistencyHeader) = {}
          /\ PrintsOf("consistency report") = {}
          /\ reports = NoReports
    /\ \A i \in PrintsOf(ConsistencyHeader) \cup PrintsOf("consistency report") :
          \E k \in CallsOf("read_and_validate_maml") : k < i

\* the schema rejected the file, the function has returned, and the log ends
\* with what read_and_validate_maml printed
C24_Witness ==
    /\ pc = "done"
    /\ table.maml_file = "invalid"
    /\ args.print_output
    /\ result = Returned(None)
    /\ history[Len(history)] = Printed("Overall Status: INVALID")

\* the file was accepted and the check ran last, on two columns
C24_WitnessChecked ==
    /\ pc = "done"
    /\ table.maml_file = "valid"
    /\ args.print_output
    /\ Len(reports) = 2
    /\ CallsMade = WorkflowCalls
    /\ PrintsOf(ConsistencyHeader) # {}

-----------------------------------------------------------------------------
(* metadata_validator.py: the five lists of MamlMetaData. A list attribute *)
(* is None or Some(list); an item carries the name of its class.           *)

Author(first_name) == [type |-> "Author", id |-> first_name]
Dependency(survey) == [type |-> "Dependency", id |-> survey]
Doi(doi) == [type |-> "Doi", id |-> doi]
PyStr(s) == [type |-> "str", id |-> s]

\* `not self.<list>`: None and [] are both false
NoItems(list) == IsNone(list) \/ list = Some(<<>>)

\* an assignment of [item] whatever the list holds
Appended_Replacing(list, item) == Some(<<item>>)

\* if not self.<list>: self.<list> = [item]  else: self.<list>.append(item)
Appended(list, item) ==
    IF NoItems(list) THEN Some(<<item>>) ELSE Some(Append(list[1], item))

Added(self, res) == [self |-> self, result |-> res]

CoauthorMessage == <<"Coauthor needs to be an 'Author' type. Use Author('<name>', '<surname>', '<email>')">>
DependencyMessage == <<"dependency needs to be 'Dependency' type. Use Dependency(<survey>, <dataset>, <table>, <version>).">>
DoiMessage == <<"doi needs to be a 'Doi' object. Use Doi(<doi string>, <type of doi>).">>

add_coauthor(self, coauthor) ==
    IF coauthor.type # "Author" THEN Added(self, Raised(ValueError(CoauthorMessage)))
    ELSE Added([self EXCEPT !.coauthors = Appended(@, coauthor)], Returned(None))

add_comment(self, comment) ==
    Added([self EXCEPT !.comments = Appended(@, comment)], Returned(None))

add_dependency(self, dependency) ==
    IF dependency.type # "Dependency"
    THEN Added(self, Raised(ValueError(DependencyMessage)))
    ELSE Added([self EXCEPT !.depends = Appended(@, dependency)], Returned(None))

add_doi(self, doi) ==
    IF doi.type # "Doi" THEN Added(self, Raised(ValueError(DoiMessage)))
    ELSE Added([self EXCEPT !.dois = Appended(@, doi)], Returned(None))

add_keyword(self, keyword) ==
    Added([self EXCEPT !.keywords = Appended(@, keyword)], Returned(None))

-----------------------------------------------------------------------------
(* The five adders as a state machine: an object is constructed with its   *)
(* lists (kept in `args`) and the adders are called on it in any order.    *)

\* the arguments passed: two of the expected class and one of another
CoauthorArgs == {Author("a"), Author("b"), PyStr("a")}
DependencyArgs == {Dependency("a"), Dependency("b"), Author("a")}
DoiArgs == {Doi("a"), Doi("b"), PyStr("a")}
CommentArgs == {PyStr("a"), Author("a")}
KeywordArgs == {PyStr("b"), Doi("a")}

\* the lists the object is constructed with: absent, empty, or one item each
InitialLists ==
    { [coauthors |-> None, dois |-> None, depends |-> None, comments |-> None,
       keywords |-> None],
      [coauthors |-> Some(<<>>), dois |-> Some(<<>>), depends |-> Some(<<>>),
       comments |-> Some(<<>>), keywords |-> Some(<<>>)],
      [coauthors |-> Some(<<Author("c")>>), dois |-> Some(<<Doi("c")>>),
       depends |-> None, comments |-> Some(<<PyStr("c")>>), keywords |-> Some(<<>>)] }

InitMaml ==
    /\ args \in InitialLists
    /\ maml = MamlMetaData([columns |-> <<>>], args.coauthors, args.dois, args.depends,
                           args.comments, args.keywords)
    /\ filter_words = <<>>
    /\ exceptions = <<>>
    /\ protected_words = <<>>
    /\ name = <<>>
    /\ pc = "ready"
    /\ call = "none"
    /\ result = [raised |-> None, value |-> None]
    /\ table = NoTable
    /\ reports = NoReports
    /\ history = NoHistory

\* one call of an adder
Adder(op, item, outcome) ==
    /\ Len(history) < MaxCalls
    /\ maml' = outcome.self
    /\ call' = op
    /\ result' = outcome.result
    /\ pc' = "done"
    /\ history' = Append(history, [call |-> op, item |-> item,
                                   result |-> outcome.result, before |-> maml])
    /\ UNCHANGED <<filter_words, exceptions, protected_words, name, table, args, reports>>

CallAddCoauthor ==
    \E item \in CoauthorArgs : Adder("add_coauthor", item, add_coauthor(maml, item))
CallAddComment ==
    \E item \in CommentArgs : Adder("add_comment", item, add_comment(maml, item))
CallAddDependency ==
    \E item \in DependencyArgs : Adder("add_dependency", item, add_dependency(maml, item))
CallAddDoi ==
    \E item \in DoiArgs : Adder("add_doi", item, add_doi(maml, item))
CallAddKeyword ==
    \E item \in KeywordArgs : Adder("add_keyword", item, add_keyword(maml, item))

NextMaml ==
    \/ CallAddCoauthor
    \/ CallAddComment
    \/ CallAddDependency
    \/ CallAddDoi
    \/ CallAddKeyword

SpecMaml == InitMaml /\ [][NextMaml]_vars

-----------------------------------------------------------------------------
(* Properties of the adders of MamlMetaData *)

AdderNames == {"add_coauthor", "add_comment", "add_dependency", "add_doi", "add_keyword"}

\* the list an adder is for, and the class it asks of its argument, if any
ListOf(op) ==
    CASE op = "add_coauthor" -> "coauthors"
      [] op = "add_comment" -> "comments"
      [] op = "add_dependency" -> "depends"
      [] op = "add_doi" -> "dois"
      [] op = "add_keyword" -> "keywords"
ClassOf(op) ==
    CASE op = "add_coauthor" -> Some("Author")
      [] op = "add_dependency" -> Some("Dependency")
      [] op = "add_doi" -> Some("Doi")
      [] OTHER -> None
ListNames == {ListOf(op) : op \in AdderNames}

\* a list attribute as a list: None is the empty list
Contents(list) == IF IsNone(list) THEN <<>> ELSE list[1]

\* the calls of `op` that returned, in call order, and their arguments
AcceptedCalls(op) == SelectSeq(history, LAMBDA e : e.call = op /\ IsNone(e.result.raised))
AcceptedItems(op) == [i \in 1..Len(AcceptedCalls(op)) |-> AcceptedCalls(op)[i].item]

\* the object as call number i left it
ObjectAfter(i) == IF i < Len(history) THEN history[i + 1].before ELSE maml

WrongClass(e) == ~IsNone(ClassOf(e.call)) /\ ClassOf(e.call) # Some(e.item.type)

\* C27: after any sequence of add_comment, add_keyword, add_coauthor,
\* add_dependency and add_doi calls, each of the five lists is its initial
\* content (None as empty) followed by the accepted items of its own kind in
\* call order; add_coauthor, add_dependency and add_doi given an argument of
\* the wrong type raise ValueError and leave every list unchanged.
C27_ListsGrowByTheirOwnAcceptedItems ==
    (history # <<>> /\ call \in AdderNames) =>
        /\ \A op \in AdderNames :
              Contents(maml[ListOf(op)]) = Contents(args[ListOf(op)]) \o AcceptedItems(op)
        /\ \A i \in 1..Len(history) :
              IF WrongClass(history[i])
              THEN /\ ~IsNone(history[i].result.raised)
                   /\ history[i].result.raised[1].type = "ValueError"
                   /\ ObjectAfter(i) = history[i].before
              ELSE IsNone(history[i].result.raised)

\* a coauthor was added to the one the object had, a str was refused as a
\* coauthor, and a dependency was added to a list that was None
C27_Witness ==
    /\ Len(history) = MaxCalls
    /\ call \in AdderNames
    /\ args.coauthors = Some(<<Author("c")>>)
    /\ maml.coauthors = Some(<<Author("c"), Author("b")>>)
    /\ \E i \in 1..Len(history) :
          history[i].call = "add_coauthor" /\ WrongClass(history[i])
    /\ IsNone(args.depends)
    /\ maml.depends = Some(<<Dependency("a")>>)

-----------------------------------------------------------------------------
(* data_validator.py: check_no_minus_999, DataValueReport, validate_table  *)

\* ";;;".join(names)
JoinNames(names) ==
    IF names = <<>> THEN <<>>
    ELSE names[1] \o Flatten([i \in 1..(Len(names) - 1) |->
                                 <<";", ";", ";">> \o names[i + 1]])

\* the columns, in data-frame order, that hold -999. The columns are
\* numeric: `-999 in column` compares values, and `"-999" in column` adds
\* nothing for them.
bad_columns(data_frame) ==
    SelectSeq(data_frame.columns,
              LAMBDA c : \E i \in 1..Len(data_frame.series[c].values) :
                            data_frame.series[c].values[i] = -999)

check_no_minus_999(data_frame) ==
    IF bad_columns(data_frame) = <<>> THEN Status(PASS, None)
    ELSE Status(FAIL, Some(JoinNames(bad_columns(data_frame))))

DataValueReport(table_name, valid_ra, valid_dec, no_999) ==
    [table_name |-> table_name, valid_ra |-> valid_ra, valid_dec |-> valid_dec,
     no_999 |-> no_999,
     valid |-> valid_ra.state = PASS /\ valid_dec.state = PASS /\ no_999.state = PASS]

validate_table(df, table_name) ==
    DataValueReport(table_name, validate_ra(df, None), validate_dec(df, None),
                    check_no_minus_999(df))

-----------------------------------------------------------------------------
(* The validation operations called one after another on one vocabulary,   *)
(* one data frame and one metadata object; `history` holds the reports     *)
(* they returned. None of them assigns to, or changes in place, what it is *)
(* given.                                                                  *)

FrameNames == { <<"o", "b", "1">>, <<"B", "_", "1">> }
FrameColumnLists == { <<ColRa>>, <<ColDec, ColRa>> }
FrameValues == {0, -999}

InitFrame ==
    /\ \E v \in {w \in Vocabularies : Len(w.exceptions) = 1} :
          /\ filter_words = v.filter_words
          /\ exceptions = v.exceptions
          /\ protected_words = v.protected_words
    /\ \E columns \in FrameColumnLists, v \in FrameValues, mcols \in {{}, {ColRa}},
          dtype \in ObservedTypes, data_type \in DeclaredTypes :
          table = [name |-> TableName,
                   data |-> [columns |-> columns,
                             series |-> [c \in ToSet(columns) |->
                                            [dtype |-> dtype, values |-> <<v>>]]],
                   metadata |-> [fields |-> [columns |->
                       [c \in mcols |-> ColumnMetaData(c, None, data_type,
                                                       Some(MinMax(1, 2)), None, None)]]]]
    /\ name = <<>>
    /\ pc = "ready"
    /\ call = "none"
    /\ result = [raised |-> None, value |-> None]
    /\ args = NoArgs
    /\ reports = NoReports
    /\ history = NoHistory
    /\ maml = NoMaml

\* a call that clears the declared range of every column it looks at
Validation_ClearingQc(op, n, res) ==
    /\ Len(history) < MaxCalls
    /\ name' = n
    /\ call' = op
    /\ result' = res
    /\ pc' = "done"
    /\ history' = Append(history, [call |-> op, name |-> n, result |-> res])
    /\ table' = [table EXCEPT !.metadata.fields.columns =
                    [c \in DOMAIN @ |-> [@[c] EXCEPT !.qc = None]]]
    /\ UNCHANGED <<filter_words, exceptions, protected_words, args, reports, maml>>

\* one call: its report joins the reports returned so far
Validation(op, n, res) ==
    /\ Len(history) < MaxCalls
    /\ name' = n
    /\ call' = op
    /\ result' = res
    /\ pc' = "done"
    /\ history' = Append(history, [call |-> op, name |-> n, result |-> res])
    /\ UNCHANGED <<filter_words, exceptions, protected_words, table, args, reports, maml>>

ThenValidateColumnName ==
    \E n \in FrameNames : Validation("validate_column_name", n, validate_column_name(n))
ThenCheckFilter ==
    \E n \in FrameNames : Validation("check_filter", n, Returned(check_filter(n)))
ThenValidateTable ==
    Validation("validate_table", table.name,
               Returned(validate_table(table.data, table.name)))
ThenValidateDataAndMetadata ==
    \E order \in IterationOrders(all_columns(table.data, table.metadata.fields)) :
        Validation("validate_data_and_metadata", table.name,
                   Returned(validate_data_and_metadata(table.name, table.data,
                                                       table.metadata, order)))

NextFrame ==
    \/ ThenValidateColumnName
    \/ ThenCheckFilter
    \/ ThenValidateTable
    \/ ThenValidateDataAndMetadata

SpecFrame == InitFrame /\ [][NextFrame]_vars

-----------------------------------------------------------------------------
(* Properties of the validation operations taken together *)

\* C23: no validation operation changes what it is given: across every call
\* of validate_column_name, check_filter, validate_table and
\* validate_data_and_metadata the vocabulary lists, the declared metadata
\* columns and the observed data frame stay as they were, and the reports
\* returned before stay as they were returned.
C23_ValidationLeavesItsInputsAlone ==
    [][/\ filter_words' = filter_words
       /\ exceptions' = exceptions
       /\ protected_words' = protected_words
       /\ table'.metadata = table.metadata
       /\ table'.data = table.data
       /\ Len(history') = Len(history) + 1
       /\ SubSeq(history', 1, Len(history)) = history]_vars

\* three of the operations have run, on a frame with -999 in it and a
\* metadata object that declares a range
C23_Witness ==
    /\ Len(history) >= 3
    /\ \E i, j, k \in 1..Len(history) :
          /\ history[i].call = "validate_table"
          /\ ~history[i].result.value[1].valid
          /\ history[j].call = "validate_data_and_metadata"
          /\ Len(history[j].result.value[1]) = 2
          /\ history[k].call = "check_filter"
    /\ DOMAIN table.metadata.fields.columns # {}

====
